---- MODULE Spec2Model ----
(***************************************************************************)
(* State-machine model of xen/arch/x86/hvm/svm/svm.c: the AMD SVM side of  *)
(* Xen's HVM support.  One virtual CPU v with its VMCB is modelled on one  *)
(* physical core.  Registers are modelled as the set of the bits that the  *)
(* code tests or changes; the event-injection word keeps its bit layout.   *)
(***************************************************************************)
EXTENDS Integers, FiniteSets, Sequences, TLC

(***************************************************************************)
(* Program constants.                                                      *)
(***************************************************************************)
TRAP_debug == 1
TRAP_int3 == 3
TRAP_invalid_op == 6
TRAP_no_device == 7
TRAP_double_fault == 8
TRAP_gp_fault == 13
TRAP_page_fault == 14

X86_EVENTTYPE_EXT_INTR == 0
X86_EVENTTYPE_NMI == 2
X86_EVENTTYPE_HW_EXCEPTION == 3
X86_EVENTTYPE_SW_INTERRUPT == 4

HVM_DELIVER_NO_ERROR_CODE == -1
X86EMUL_OKAY == 0
X86EMUL_EXCEPTION == 2
EINVAL == 22
MAX_INST_LEN == 15

(***************************************************************************)
(* Bounds of the model.                                                    *)
(***************************************************************************)
\* Guest instruction pointers are kept modulo 2^RipBits (RipBits >= 5, so
\* that an advance by 1..15 bytes always changes the pointer).
RipBits == 5
\* Largest error code / fault address / register payload value enumerated.
MaxVal == 1
\* Largest debug-register value enumerated.
MaxDr == 1
\* The physical cores are 0 .. NrCpus - 1.
NrCpus == 3

RipMod == 2 ^ RipBits
Cpus == 0 .. NrCpus - 1
Vals == 0 .. MaxVal

\* The exception vectors enumerated as inputs.
Vectors ==
    { TRAP_debug, TRAP_int3, TRAP_invalid_op, TRAP_double_fault,
      TRAP_gp_fault, TRAP_page_fault }

\* CR0 bits that svm.c tests or forces.
Cr0Bits == { "TS", "ET", "WP", "PG" }
\* CR4 bits: PAE is the one svm.c names, MCE stands for the rest of the
\* host mask, PGE for a bit outside it.
Cr4Bits == { "PAE", "MCE", "PGE" }
\* HVM_CR4_HOST_MASK
HVM_CR4_HOST_MASK == { "PAE", "MCE" }

(***************************************************************************)
(* The event-injection word (eventinj_t / hvm_hw_cpu.pending_event):       *)
(* vector:8, type:3, ev:1, reserved:19, v:1 in the low 32 bits and the     *)
(* error code in the high 32 bits.  A 32-bit word is kept as its bit 31    *)
(* (hi) and its bits 0..30 (lo).                                           *)
(***************************************************************************)
NoEvent ==
    [ v |-> 0, type |-> 0, vector |-> 0, ev |-> 0, resvd1 |-> 0, errorcode |-> 0 ]

\* (uint32_t)eventinj.bytes
EventinjLow32(e) ==
    [ hi |-> e.v,
      lo |-> e.vector + 256 * e.type + 2048 * e.ev + 4096 * e.resvd1 ]

pending_vector(w) == w.lo % 256
pending_type(w) == (w.lo \div 256) % 8
pending_error_valid(w) == (w.lo \div 2048) % 2
pending_reserved(w) == w.lo \div 4096
pending_valid(w) == w.hi

\* eventinj.bytes = (64-bit) w: the fields are those of w, the error code 0.
EventinjFromLow32(w) ==
    [ v |-> pending_valid(w), type |-> pending_type(w),
      vector |-> pending_vector(w), ev |-> pending_error_valid(w),
      resvd1 |-> pending_reserved(w), errorcode |-> 0 ]

\* The 32-bit error code is kept as the signed value of its bit pattern
\* (HVM_DELIVER_NO_ERROR_CODE, -1, is 0xffffffff).

(***************************************************************************)
(* Collaborators outside svm.c.                                            *)
(***************************************************************************)
\* hvm_event_needs_reinjection(type, vector)
hvm_event_needs_reinjection(type, vector) ==
    CASE type \in { X86_EVENTTYPE_EXT_INTR, X86_EVENTTYPE_NMI } -> TRUE
      [] type = X86_EVENTTYPE_HW_EXCEPTION -> vector \notin { 3, 4 }
      [] OTHER -> FALSE

\* The contributory exceptions of the architecture's escalation table.
ContributoryVectors == { 0, 10, 11, 12, 13 }

\* hvm_combine_hw_exceptions(vec1, vec2): the architecture's table.
hvm_combine_hw_exceptions(vec1, vec2) ==
    CASE vec1 = TRAP_double_fault -> TRAP_double_fault
      [] vec1 = TRAP_page_fault -> TRAP_double_fault
      [] vec1 \notin ContributoryVectors \/ vec2 = TRAP_page_fault -> vec2
      [] OTHER -> TRAP_double_fault

\* An exception raised while a double fault is being delivered shuts the
\* machine down (triple fault).
CombineTripleFaults(vec1) == vec1 = TRAP_double_fault

VARIABLES
    hap,            \* paging_mode_hap(v->domain)
    mode,           \* "off": v is not current; "host": v is current, in the
                    \* hypervisor; "guest": v is current, the guest runs;
                    \* "failed": v is current, VMRUN refused the control block
    guest_cr,       \* v->arch.hvm_vcpu.guest_cr[0,2,3,4]
    guest_efer,     \* v->arch.hvm_vcpu.guest_efer
    vmcb,           \* v->arch.hvm_svm.vmcb
    regs,           \* guest_cpu_user_regs(): eip, eflags, and eax, ebx, ecx,
                    \* edx as the sets of their bits that are 1
    debugreg,       \* v->arch.guest_context.debugreg: a (0..3), dr6, dr7
    hw_dr,          \* the core's debug registers 0..3
    flag_dr_dirty,  \* v->arch.hvm_vcpu.flag_dr_dirty
    debugger_attached, \* v->domain->debugger_attached
    active_vmcb,    \* the control block loaded on the core: "root" or "guest"
    ist,            \* the IST fields of the core's IDT entries of #DF, NMI
                    \* and #MC, each as the set of its bits that are 1
    vmcb_in_sync,   \* v->arch.hvm_svm.vmcb_in_sync
    vlapic_tpr,     \* the vlapic's APIC_TASKPRI register
    msrpm_off,      \* the MSRs whose interception is disabled (msrpm)
    crashed,        \* domain_crash(v->domain) was called
    triple_fault,   \* hvm_triple_fault() was called
    ctxt,           \* the struct hvm_hw_cpu save record
    h_slot,         \* history: the injection slot when ctxt was last saved
    h_save,         \* history: the registers when ctxt was saved, if it was
    boot,           \* the bring-up of the physical cores: hsa[], root_vmcb[],
                    \* svm_feature_flags, the registered function table
    cpu,            \* smp_processor_id() of the core v runs on, or will
    launch_core,    \* v->arch.hvm_svm.launch_core
    debug_state_latch, \* v->arch.hvm_vcpu.debug_state_latch
    call            \* the last operation, its inputs and its results

vars ==
    << hap, mode, guest_cr, guest_efer, vmcb, regs, debugreg, hw_dr, flag_dr_dirty,
       debugger_attached, active_vmcb, ist, vmcb_in_sync, vlapic_tpr,
       msrpm_off, crashed, triple_fault, ctxt, h_slot, h_save, boot, cpu,
       launch_core, debug_state_latch, call >>


(***************************************************************************)
(* The C functions are operators on st, a record of the state they read    *)
(* and write: the per-vcpu, per-core and global state variables, and three *)
(* scratch fields: ext, the collaborator calls made so far by the running  *)
(* operation; rc, the value last returned; disp, the injection slot when   *)
(* the exit was dispatched.  The history h_save travels with st, so that   *)
(* only the save writes it.                                                *)
(***************************************************************************)
\* The SYSENTER MSRs of the control block vm, in the order CS, ESP, EIP.
SysenterOf(vm) == << vm.sysenter_cs, vm.sysenter_esp, vm.sysenter_eip >>

\* The shadow GS base and the SYSCALL MSRs of the control block vm, in the
\* order of svm_save_cpu_state.
SyscallOf(vm) == << vm.kerngsbase, vm.lstar, vm.star, vm.cstar, vm.sfmask >>

\* The registers of st that the save record carries.
SavedRegs(st) ==
    [ guest_cr |-> st.guest_cr, guest_efer |-> st.guest_efer,
      sysenter |-> SysenterOf(st.vmcb), syscall |-> SyscallOf(st.vmcb) ]

Cur ==
    [ vmcb |-> vmcb, guest_cr |-> guest_cr, guest_efer |-> guest_efer,
      regs |-> regs,
      debugreg |-> debugreg, hw_dr |-> hw_dr, flag_dr_dirty |-> flag_dr_dirty,
      debugger_attached |-> debugger_attached, active_vmcb |-> active_vmcb,
      ist |-> ist, vmcb_in_sync |-> vmcb_in_sync, vlapic_tpr |-> vlapic_tpr,
      msrpm_off |-> msrpm_off, crashed |-> crashed,
      triple_fault |-> triple_fault, boot |-> boot, cpu |-> cpu,
      launch_core |-> launch_core, debug_state_latch |-> debug_state_latch,
      h_save |-> h_save,
      ext |-> {}, rc |-> 0, disp |-> vmcb.eventinj ]

\* The state variables take the values of st.
Commit(st) ==
    /\ vmcb' = st.vmcb
    /\ guest_cr' = st.guest_cr
    /\ guest_efer' = st.guest_efer
    /\ regs' = st.regs
    /\ debugreg' = st.debugreg
    /\ hw_dr' = st.hw_dr
    /\ flag_dr_dirty' = st.flag_dr_dirty
    /\ debugger_attached' = st.debugger_attached
    /\ active_vmcb' = st.active_vmcb
    /\ ist' = st.ist
    /\ vmcb_in_sync' = st.vmcb_in_sync
    /\ vlapic_tpr' = st.vlapic_tpr
    /\ msrpm_off' = st.msrpm_off
    /\ crashed' = st.crashed
    /\ triple_fault' = st.triple_fault
    /\ boot' = st.boot
    /\ cpu' = st.cpu
    /\ launch_core' = st.launch_core
    /\ debug_state_latch' = st.debug_state_latch
    /\ h_save' = st.h_save

\* A call of a collaborator that leaves the modelled state alone.
Ext(st, name) == [ st EXCEPT !.ext = @ \cup { name } ]

\* domain_crash(v->domain)
domain_crash(st) == [ st EXCEPT !.crashed = TRUE ]

\* hvm_triple_fault()
hvm_triple_fault(st) == [ st EXCEPT !.triple_fault = TRUE ]

\* return rc
Return(st, rc) == [ st EXCEPT !.rc = rc ]

(***************************************************************************)
(* Debug registers.                                                        *)
(***************************************************************************)
\* DR7 bits: L0 stands for the breakpoint-enable bits (DR7_ACTIVE_MASK),
\* GD for the others.  DR6 bit BS is 0x4000.
Dr7Bits == { "L0", "GD" }
DR7_ACTIVE_MASK == { "L0" }
DrInterceptAll == 0 .. 31

\* Mutant of svm_save_dr: the dirty flag is left set.
svm_save_dr_keep_flag(st) ==
    IF ~st.flag_dr_dirty
    THEN st
    ELSE [ st EXCEPT !.vmcb.dr_intercepts = DrInterceptAll,
                     !.debugreg = [ a |-> st.hw_dr, dr6 |-> st.vmcb.dr6,
                                    dr7 |-> st.vmcb.dr7 ] ]

\* Mutant of svm_save_dr: the interception of debug-register accesses is
\* not enabled again.
svm_save_dr_keep_open(st) ==
    IF ~st.flag_dr_dirty
    THEN st
    ELSE [ st EXCEPT !.flag_dr_dirty = FALSE,
                     !.debugreg = [ a |-> st.hw_dr, dr6 |-> st.vmcb.dr6,
                                    dr7 |-> st.vmcb.dr7 ] ]

\* svm_save_dr(v)
svm_save_dr(st) ==
    IF ~st.flag_dr_dirty
    THEN st
    ELSE [ st EXCEPT !.flag_dr_dirty = FALSE,
                     !.vmcb.dr_intercepts = DrInterceptAll,
                     !.debugreg = [ a |-> st.hw_dr, dr6 |-> st.vmcb.dr6,
                                    dr7 |-> st.vmcb.dr7 ] ]

\* __restore_debug_registers(v)
restore_debug_registers(st) ==
    IF st.flag_dr_dirty
    THEN st
    ELSE [ st EXCEPT !.flag_dr_dirty = TRUE,
                     !.vmcb.dr_intercepts = {},
                     !.hw_dr = st.debugreg.a,
                     !.vmcb.dr6 = st.debugreg.dr6,
                     !.vmcb.dr7 = st.debugreg.dr7 ]

\* Mutant of svm_restore_dr: the registers are never restored.
svm_restore_dr_never(st) == st

\* Mutant of svm_restore_dr: the registers are restored whatever DR7 holds.
svm_restore_dr_always(st) == restore_debug_registers(st)

\* svm_restore_dr(v)
svm_restore_dr(st) ==
    IF st.debugreg.dr7 \cap DR7_ACTIVE_MASK # {}
    THEN restore_debug_registers(st)
    ELSE st

(***************************************************************************)
(* Event injection.                                                        *)
(***************************************************************************)
\* Mutant of svm_inject_exception: the error code survives the escalation
\* to a double fault, and a pending exception is not combined with.
svm_inject_exception_keep(st, trapnr, errcode, cr2) ==
    LET event1 == [ v |-> 1, type |-> X86_EVENTTYPE_HW_EXCEPTION,
                    vector |-> trapnr,
                    ev |-> IF errcode # HVM_DELIVER_NO_ERROR_CODE THEN 1 ELSE 0,
                    resvd1 |-> 0, errorcode |-> errcode ]
        st1 == [ st EXCEPT !.vmcb.eventinj = event1 ]
    IN  IF trapnr = TRAP_page_fault
        THEN [ st1 EXCEPT !.vmcb.cr2 = cr2, !.guest_cr.cr2 = cr2 ]
        ELSE st1

\* Mutant of svm_inject_exception: the fault address is stored whenever
\* the caller's vector is the page fault, escalated or not.
svm_inject_exception_cr2_always(st, trapnr, errcode, cr2) ==
    LET event == st.vmcb.eventinj
        combine == event.v = 1 /\ event.type = X86_EVENTTYPE_HW_EXCEPTION
        trapnr1 == IF combine
                   THEN hvm_combine_hw_exceptions(event.vector, trapnr)
                   ELSE trapnr
        errcode1 == IF combine /\ trapnr1 = TRAP_double_fault
                    THEN 0 ELSE errcode
        st0 == IF combine /\ CombineTripleFaults(event.vector)
               THEN hvm_triple_fault(st) ELSE st
        event1 == [ v |-> 1, type |-> X86_EVENTTYPE_HW_EXCEPTION,
                    vector |-> trapnr1,
                    ev |-> IF errcode1 # HVM_DELIVER_NO_ERROR_CODE THEN 1 ELSE 0,
                    resvd1 |-> 0, errorcode |-> errcode1 ]
        st1 == [ st0 EXCEPT !.vmcb.eventinj = event1 ]
        st2 == IF trapnr = TRAP_page_fault
               THEN [ st1 EXCEPT !.vmcb.cr2 = cr2, !.guest_cr.cr2 = cr2 ]
               ELSE st1
    IN  IF trapnr1 = TRAP_debug /\ "TF" \in st2.regs.eflags
        THEN LET st3 == restore_debug_registers(st2)
             IN  [ st3 EXCEPT !.vmcb.dr6 = @ \cup { "BS" } ]
        ELSE st2

\* svm_inject_exception(trapnr, errcode, cr2), on current.
svm_inject_exception(st, trapnr, errcode, cr2) ==
    LET event == st.vmcb.eventinj
        combine == event.v = 1 /\ event.type = X86_EVENTTYPE_HW_EXCEPTION
        trapnr1 == IF combine
                   THEN hvm_combine_hw_exceptions(event.vector, trapnr)
                   ELSE trapnr
        errcode1 == IF combine /\ trapnr1 = TRAP_double_fault
                    THEN 0 ELSE errcode
        st0 == IF combine /\ CombineTripleFaults(event.vector)
               THEN hvm_triple_fault(st) ELSE st
        event1 == [ v |-> 1, type |-> X86_EVENTTYPE_HW_EXCEPTION,
                    vector |-> trapnr1,
                    ev |-> IF errcode1 # HVM_DELIVER_NO_ERROR_CODE THEN 1 ELSE 0,
                    resvd1 |-> 0, errorcode |-> errcode1 ]
        st1 == [ st0 EXCEPT !.vmcb.eventinj = event1 ]
        st2 == IF trapnr1 = TRAP_page_fault
               THEN [ st1 EXCEPT !.vmcb.cr2 = cr2, !.guest_cr.cr2 = cr2 ]
               ELSE st1
    IN  IF trapnr1 = TRAP_debug /\ "TF" \in st2.regs.eflags
        THEN LET st3 == restore_debug_registers(st2)
             IN  [ st3 EXCEPT !.vmcb.dr6 = @ \cup { "BS" } ]
        ELSE st2

\* svm_event_pending(v)
svm_event_pending(st) == st.vmcb.eventinj.v = 1

\* Mutant of __update_guest_eip: only a length above 15 is refused.
update_guest_eip_zero_ok(st, inst_len) ==
    IF inst_len > MAX_INST_LEN
    THEN domain_crash(st)
    ELSE LET st1 == [ st EXCEPT !.regs.eip = (@ + inst_len) % RipMod,
                                !.regs.eflags = @ \ { "RF" },
                                !.vmcb.interrupt_shadow = 0 ]
         IN  IF "TF" \in st1.regs.eflags
             THEN svm_inject_exception(st1, TRAP_debug,
                                       HVM_DELIVER_NO_ERROR_CODE, 0)
             ELSE st1

\* __update_guest_eip(regs, inst_len)
update_guest_eip(st, inst_len) ==
    IF inst_len = 0 \/ inst_len > MAX_INST_LEN
    THEN domain_crash(st)
    ELSE LET st1 == [ st EXCEPT !.regs.eip = (@ + inst_len) % RipMod,
                                !.regs.eflags = @ \ { "RF" },
                                !.vmcb.interrupt_shadow = 0 ]
         IN  IF "TF" \in st1.regs.eflags
             THEN svm_inject_exception(st1, TRAP_debug,
                                       HVM_DELIVER_NO_ERROR_CODE, 0)
             ELSE st1

(***************************************************************************)
(* Control-register projection and lazy FPU.                               *)
(***************************************************************************)
\* svm_fpu_enter(v): setup_fpu(v), stop intercepting #NM.
svm_fpu_enter(st) ==
    [ Ext(st, "setup_fpu") EXCEPT
        !.vmcb.exception_intercepts = @ \ { TRAP_no_device } ]

\* svm_fpu_leave(v)
svm_fpu_leave(st) ==
    IF "TS" \notin st.guest_cr.cr0
    THEN [ st EXCEPT !.vmcb.exception_intercepts = @ \cup { TRAP_no_device },
                     !.vmcb.cr0 = @ \cup { "TS" } ]
    ELSE st

\* Mutant of svm_update_guest_cr0: PG and WP are not forced on.
svm_update_guest_cr0_noforce(st, is_curr) ==
    LET ts_clear == "TS" \notin st.guest_cr.cr0
        hw_cr0_mask == IF ts_clear /\ ~is_curr THEN { "TS" } ELSE {}
        st1 == IF ts_clear /\ is_curr /\ "TS" \in st.vmcb.cr0
               THEN svm_fpu_enter(st)
               ELSE st
    IN  [ st1 EXCEPT !.vmcb.cr0 = st.guest_cr.cr0 \cup hw_cr0_mask ]

\* Mutant of svm_update_guest_cr0: the task-switched bit is forced on
\* whenever the canonical value has it clear, for the current vcpu too.
svm_update_guest_cr0_force_ts(st, is_curr) ==
    LET ts_clear == "TS" \notin st.guest_cr.cr0
        hw_cr0_mask == IF ts_clear THEN { "TS" } ELSE {}
        cr0 == st.guest_cr.cr0 \cup hw_cr0_mask
    IN  [ st EXCEPT !.vmcb.cr0 =
            IF ~hap THEN cr0 \cup { "PG", "WP" } ELSE cr0 ]

\* svm_update_guest_cr(v, 0); is_curr is (v == current).
svm_update_guest_cr0(st, is_curr) ==
    LET ts_clear == "TS" \notin st.guest_cr.cr0
        hw_cr0_mask == IF ts_clear /\ ~is_curr THEN { "TS" } ELSE {}
        st1 == IF ts_clear /\ is_curr /\ "TS" \in st.vmcb.cr0
               THEN svm_fpu_enter(st)
               ELSE st
        cr0 == st.guest_cr.cr0 \cup hw_cr0_mask
    IN  [ st1 EXCEPT !.vmcb.cr0 =
            IF ~hap THEN cr0 \cup { "PG", "WP" } ELSE cr0 ]

\* svm_update_guest_cr(v, 2)
svm_update_guest_cr2(st) == [ st EXCEPT !.vmcb.cr2 = st.guest_cr.cr2 ]

\* Mutant of svm_update_guest_cr4: the canonical CR4 is ANDed with the
\* host mask, and PAE is cleared under hardware-assisted paging.
svm_update_guest_cr4_and(st) ==
    [ st EXCEPT !.vmcb.cr4 =
        (IF hap THEN HVM_CR4_HOST_MASK \ { "PAE" } ELSE HVM_CR4_HOST_MASK)
            \cap st.guest_cr.cr4 ]

\* svm_update_guest_cr(v, 4)
svm_update_guest_cr4(st) ==
    [ st EXCEPT !.vmcb.cr4 =
        (IF hap THEN HVM_CR4_HOST_MASK \ { "PAE" } ELSE HVM_CR4_HOST_MASK)
            \cup st.guest_cr.cr4 ]

\* svm_update_guest_efer(v)
EferBits == { "SCE", "LME", "LMA", "SVME" }

\* Mutant of svm_update_guest_efer: LME stays clear in the hardware copy.
svm_update_guest_efer_lme_off(st) ==
    [ st EXCEPT !.vmcb.efer = (st.guest_efer \cup { "SVME" }) \ { "LME" } ]

svm_update_guest_efer(st) ==
    LET efer == (st.guest_efer \cup { "SVME" }) \ { "LME" }
    IN  [ st EXCEPT !.vmcb.efer =
            IF "LMA" \in efer THEN efer \cup { "LME" } ELSE efer ]

\* svm_fpu_dirty_intercept()
svm_fpu_dirty_intercept(st) ==
    LET st1 == svm_fpu_enter(st)
    IN  IF "TS" \notin st1.guest_cr.cr0
        THEN [ st1 EXCEPT !.vmcb.cr0 = @ \ { "TS" } ]
        ELSE st1

(***************************************************************************)
(* Save and restore of the struct hvm_hw_cpu record c.  Of the record's    *)
(* fields the model keeps cr0, cr2, cr3, cr4, the SYSENTER MSRs, msr_efer,  *)
(* the SYSCALL MSRs with the shadow GS base, pending_event and error_code; *)
(* the time stamp is read from and handed to the virtual-time subsystem,   *)
(* whose clock is not part of the state, and msr_flags is only written.    *)
(* origin tells where the record came from: "none", "saved" (written by    *)
(* svm_save_vmcb_ctxt) or "foreign".                                       *)
(***************************************************************************)
NoCtxt ==
    [ origin |-> "none", cr0 |-> {}, cr2 |-> 0, cr3 |-> 0, cr4 |-> {},
      sysenter_cs |-> 0, sysenter_esp |-> 0, sysenter_eip |-> 0,
      shadow_gs |-> 0, msr_lstar |-> 0, msr_star |-> 0, msr_cstar |-> 0,
      msr_syscall_mask |-> 0, msr_efer |-> {},
      pending_event |-> [ hi |-> 0, lo |-> 0 ], error_code |-> 0 ]

\* Mutant of svm_vmcb_save: the error code of the pending event is not saved.
svm_vmcb_save_noerr(st, c) ==
    LET e == st.vmcb.eventinj
        keep == e.v = 1 /\ hvm_event_needs_reinjection(e.type, e.vector)
    IN  [ st |-> st,
          c |-> [ c EXCEPT
                    !.cr0 = st.guest_cr.cr0, !.cr2 = st.guest_cr.cr2,
                    !.cr3 = st.guest_cr.cr3, !.cr4 = st.guest_cr.cr4,
                    !.sysenter_cs = st.vmcb.sysenter_cs,
                    !.sysenter_esp = st.vmcb.sysenter_esp,
                    !.sysenter_eip = st.vmcb.sysenter_eip,
                    !.pending_event = IF keep THEN EventinjLow32(e)
                                      ELSE [ hi |-> 0, lo |-> 0 ],
                    !.error_code = 0 ] ]

\* Mutant of svm_vmcb_save: a pending event that was saved is taken out of
\* the injection slot.
svm_vmcb_save_drain(st, c) ==
    LET e == st.vmcb.eventinj
        keep == e.v = 1 /\ hvm_event_needs_reinjection(e.type, e.vector)
    IN  [ st |-> IF keep THEN [ st EXCEPT !.vmcb.eventinj.v = 0 ] ELSE st,
          c |-> [ c EXCEPT
                    !.cr0 = st.guest_cr.cr0, !.cr2 = st.guest_cr.cr2,
                    !.cr3 = st.guest_cr.cr3, !.cr4 = st.guest_cr.cr4,
                    !.sysenter_cs = st.vmcb.sysenter_cs,
                    !.sysenter_esp = st.vmcb.sysenter_esp,
                    !.sysenter_eip = st.vmcb.sysenter_eip,
                    !.pending_event = IF keep THEN EventinjLow32(e)
                                      ELSE [ hi |-> 0, lo |-> 0 ],
                    !.error_code = IF keep THEN e.errorcode ELSE 0 ] ]

\* svm_vmcb_save(v, c): the vcpu's state st, which it leaves alone, and the
\* record it writes.
svm_vmcb_save(st, c) ==
    LET e == st.vmcb.eventinj
        keep == e.v = 1 /\ hvm_event_needs_reinjection(e.type, e.vector)
    IN  [ st |-> st,
          c |-> [ c EXCEPT
                    !.cr0 = st.guest_cr.cr0, !.cr2 = st.guest_cr.cr2,
                    !.cr3 = st.guest_cr.cr3, !.cr4 = st.guest_cr.cr4,
                    !.sysenter_cs = st.vmcb.sysenter_cs,
                    !.sysenter_esp = st.vmcb.sysenter_esp,
                    !.sysenter_eip = st.vmcb.sysenter_eip,
                    !.pending_event = IF keep THEN EventinjLow32(e)
                                      ELSE [ hi |-> 0, lo |-> 0 ],
                    !.error_code = IF keep THEN e.errorcode ELSE 0 ] ]

\* Mutant of svm_vmcb_restore: the page-table root of the record is looked
\* up after the control registers have been written.
svm_vmcb_restore_tail_late_cr3(st, c, cr3_ok, is_curr) ==
    LET st1 == [ st EXCEPT !.guest_cr =
                   [ cr0 |-> c.cr0 \cup { "ET" }, cr2 |-> c.cr2,
                     cr3 |-> c.cr3, cr4 |-> c.cr4 ] ]
        st1a == svm_update_guest_cr4(svm_update_guest_cr2(
                   svm_update_guest_cr0(st1, is_curr)))
        st2 == [ st1a EXCEPT !.vmcb.sysenter_cs = c.sysenter_cs,
                             !.vmcb.sysenter_esp = c.sysenter_esp,
                             !.vmcb.sysenter_eip = c.sysenter_eip ]
        w == c.pending_event
        st3 == IF pending_valid(w) = 1 /\
                  hvm_event_needs_reinjection(pending_type(w),
                                              pending_vector(w))
               THEN [ st2 EXCEPT !.vmcb.eventinj =
                        [ EventinjFromLow32(w) EXCEPT
                            !.errorcode = c.error_code ] ]
               ELSE st2
    IN  IF ~hap /\ "PG" \in c.cr0 /\ ~cr3_ok
        THEN Return(Ext(st3, "gfn_to_mfn"), -EINVAL)
        ELSE Return(Ext(st3, "paging_update_paging_modes"), 0)

\* The tail of svm_vmcb_restore, after its validation of the pending event:
\* cr3_ok is the answer of gfn_to_mfn / get_page for c->cr3.
svm_vmcb_restore_tail(st, c, cr3_ok, is_curr) ==
    IF ~hap /\ "PG" \in c.cr0 /\ ~cr3_ok
    THEN Return(Ext(st, "gfn_to_mfn"), -EINVAL)
    ELSE LET st1 == [ st EXCEPT !.guest_cr =
                        [ cr0 |-> c.cr0 \cup { "ET" }, cr2 |-> c.cr2,
                          cr3 |-> c.cr3, cr4 |-> c.cr4 ] ]
             st1a == svm_update_guest_cr4(svm_update_guest_cr2(
                        svm_update_guest_cr0(st1, is_curr)))
             st2 == [ st1a EXCEPT !.vmcb.sysenter_cs = c.sysenter_cs,
                                  !.vmcb.sysenter_esp = c.sysenter_esp,
                                  !.vmcb.sysenter_eip = c.sysenter_eip ]
             w == c.pending_event
             st3 == IF pending_valid(w) = 1 /\
                       hvm_event_needs_reinjection(pending_type(w),
                                                   pending_vector(w))
                    THEN [ st2 EXCEPT !.vmcb.eventinj =
                             [ EventinjFromLow32(w) EXCEPT
                                 !.errorcode = c.error_code ] ]
                    ELSE st2
         IN  Return(Ext(st3, "paging_update_paging_modes"), 0)

\* Mutant of svm_vmcb_restore: the pending event is not validated.
svm_vmcb_restore_unchecked(st, c, cr3_ok, is_curr) ==
    svm_vmcb_restore_tail(st, c, cr3_ok, is_curr)

\* svm_vmcb_restore(v, c)
svm_vmcb_restore(st, c, cr3_ok, is_curr) ==
    LET w == c.pending_event
    IN  IF pending_valid(w) = 1 /\
           ( pending_type(w) = 1 \/ pending_type(w) > 6 \/
             pending_reserved(w) # 0 )
        THEN Return(st, -EINVAL)
        ELSE svm_vmcb_restore_tail(st, c, cr3_ok, is_curr)

\* svm_save_cpu_state(v, data)
svm_save_cpu_state(st, c) ==
    [ st |-> Ext(st, "hvm_get_guest_time"),
      c |-> [ c EXCEPT !.shadow_gs = st.vmcb.kerngsbase,
                       !.msr_lstar = st.vmcb.lstar,
                       !.msr_star = st.vmcb.star,
                       !.msr_cstar = st.vmcb.cstar,
                       !.msr_syscall_mask = st.vmcb.sfmask,
                       !.msr_efer = st.guest_efer ] ]

\* Mutant of svm_load_cpu_state: the SYSCALL targets of the two modes are
\* exchanged.
svm_load_cpu_state_swap(st, c) ==
    Ext(svm_update_guest_efer([ st EXCEPT !.vmcb.kerngsbase = c.shadow_gs,
                                          !.vmcb.lstar = c.msr_cstar,
                                          !.vmcb.star = c.msr_star,
                                          !.vmcb.cstar = c.msr_lstar,
                                          !.vmcb.sfmask = c.msr_syscall_mask,
                                          !.guest_efer = c.msr_efer ]),
        "hvm_set_guest_time")

\* svm_load_cpu_state(v, data)
svm_load_cpu_state(st, c) ==
    Ext(svm_update_guest_efer([ st EXCEPT !.vmcb.kerngsbase = c.shadow_gs,
                                          !.vmcb.lstar = c.msr_lstar,
                                          !.vmcb.star = c.msr_star,
                                          !.vmcb.cstar = c.msr_cstar,
                                          !.vmcb.sfmask = c.msr_syscall_mask,
                                          !.guest_efer = c.msr_efer ]),
        "hvm_set_guest_time")

\* svm_save_vmcb_ctxt(v, ctxt)
svm_save_vmcb_ctxt(st, c) ==
    LET r == svm_save_cpu_state(st, c)
    IN  svm_vmcb_save(r.st, r.c)

\* svm_load_vmcb_ctxt(v, ctxt)
svm_load_vmcb_ctxt(st, c, cr3_ok, is_curr) ==
    LET st1 == svm_vmcb_restore(svm_load_cpu_state(st, c), c, cr3_ok, is_curr)
    IN  IF st1.rc # 0
        THEN Return(domain_crash(st1), -EINVAL)
        ELSE Return(st1, 0)

(***************************************************************************)
(* Bring-up of the physical cores: start_svm(c), called once on each core. *)
(* boot keeps, per core, what start_svm allocated and programmed, the      *)
(* global svm_feature_flags (of its bits, NPT, which start_svm tests) and  *)
(* hap_supported, and as history the cores on which start_svm was called,  *)
(* those on which it returned 1, in order, and those that called           *)
(* hvm_enable, in order.                                                   *)
(***************************************************************************)
NoBoot ==
    [ called |-> {}, svme_cap |-> FALSE, hsa |-> {}, root_vmcb |-> {},
      efer_svme |-> {}, hsave_pa |-> {}, asid |-> {},
      svm_feature_flags |-> {}, hap_supported |-> FALSE,
      succeeded |-> << >>, hvm_enable |-> << >> ]

\* What a core finds when it is brought up: svme is bit SVME of
\* cpuid_ecx(0x80000001), bios_disabled is K8_VMCR_SVME_DISABLE of
\* MSR_K8_VM_CR, hsa_ok and vmcb_ok say that alloc_host_save_area() and
\* alloc_vmcb() succeed, ext_leaf that cpuid_eax(0x80000000) >= 0x8000000A,
\* features is cpuid_edx(0x8000000A).
GoodProbe ==
    [ svme |-> TRUE, bios_disabled |-> FALSE, hsa_ok |-> TRUE,
      vmcb_ok |-> TRUE, ext_leaf |-> TRUE, features |-> {} ]

\* start_svm up to the initialisation of the core's ASID handling; the
\* core is r.up when it got that far.
start_svm_core(st, core, probe) ==
    LET b0 == [ st.boot EXCEPT !.called = @ \cup { core },
                               !.svme_cap = probe.svme ]
    IN  CASE ~probe.svme \/ probe.bios_disabled ->
                [ st |-> [ st EXCEPT !.boot = b0 ], up |-> FALSE ]
          [] ~probe.hsa_ok ->
                [ st |-> [ st EXCEPT !.boot = b0 ], up |-> FALSE ]
          [] ~probe.vmcb_ok ->
                [ st |-> [ st EXCEPT !.boot = [ b0 EXCEPT !.hsa = @ \cup { core } ] ],
                  up |-> FALSE ]
          [] OTHER ->
                [ st |-> Ext([ st EXCEPT !.boot =
                                 [ b0 EXCEPT !.hsa = @ \cup { core },
                                             !.root_vmcb = @ \cup { core },
                                             !.efer_svme = @ \cup { core },
                                             !.hsave_pa = @ \cup { core },
                                             !.asid = @ \cup { core },
                                             !.succeeded = Append(@, core) ] ],
                             "svm_asid_init"),
                  up |-> TRUE ]

\* The tail of start_svm on the core that registers: setup_vmcb_dump, the
\* feature flags, hap_supported and hvm_enable(&svm_function_table).
start_svm_register(st, core, probe) ==
    LET flags == IF probe.ext_leaf THEN probe.features ELSE {}
    IN  Ext([ st EXCEPT !.boot.svm_feature_flags = flags,
                        !.boot.hap_supported = "NPT" \in flags,
                        !.boot.hvm_enable = Append(@, core) ],
            "setup_vmcb_dump")

\* Mutant of start_svm: the first core that gets through registers the
\* function table.
start_svm_first_to_arrive(st, core, probe) ==
    LET r == start_svm_core(st, core, probe)
    IN  CASE ~r.up -> Return(r.st, 0)
          [] r.up /\ r.st.boot.hvm_enable # << >> -> Return(r.st, 1)
          [] OTHER -> Return(start_svm_register(r.st, core, probe), 1)

\* start_svm(c) on the core whose smp_processor_id() is core.
start_svm(st, core, probe) ==
    LET r == start_svm_core(st, core, probe)
    IN  CASE ~r.up -> Return(r.st, 0)
          [] r.up /\ core # 0 -> Return(r.st, 1)
          [] OTHER -> Return(start_svm_register(r.st, core, probe), 1)

\* Every core from core on is brought up, in order, on a machine that has
\* the features flags.
RECURSIVE BootAll(_, _, _)
BootAll(st, core, flags) ==
    IF core \notin Cpus
    THEN st
    ELSE BootAll(start_svm(st, core, [ GoodProbe EXCEPT !.features = flags ]),
                 core + 1, flags)

\* The machine after bring-up, with nested paging when hap_wanted.
Booted(hap_wanted) ==
    BootAll([ boot |-> NoBoot, ext |-> {}, rc |-> 0 ], 0,
            IF hap_wanted THEN { "NPT" } ELSE {}).boot

(***************************************************************************)
(* The record of the last operation: its name, inputs and results.         *)
(***************************************************************************)
NoInput ==
    [ exit_reason |-> "none", exitinfo1 |-> 0, exitinfo2 |-> 0,
      exitintinfo |-> NoEvent, inst_len |-> 0, msr |-> "none",
      ok |-> TRUE, val |-> 0, intack |-> FALSE, blocked |-> FALSE,
      hcall |-> "none", lbrv |-> FALSE, mmio |-> FALSE,
      trapnr |-> 0, errcode |-> 0,
      leaf |-> "none", apic_off |-> FALSE, pae |-> TRUE,
      raw |-> [ eax |-> {}, ebx |-> {}, ecx |-> {}, edx |-> {} ],
      core |-> 0, probe |-> GoodProbe ]

Call(op, in, st) ==
    [ op |-> op, in |-> in, rc |-> st.rc,
      pre |-> vmcb.eventinj,        \* the injection slot before the operation
      disp |-> st.disp,             \* and when the exit was dispatched
      eip0 |-> regs.eip,            \* the instruction pointer before it
      launch0 |-> launch_core,      \* the last-core marker before it
      ext |-> st.ext ]              \* the collaborator calls it made

(***************************************************************************)
(* Construction: svm_vcpu_initialise / svm_create_vmcb.                    *)
(***************************************************************************)
InitGuestCr == [ cr0 |-> { "ET" }, cr2 |-> 0, cr3 |-> 0, cr4 |-> {} ]

BlankVmcb ==
    [ cr0 |-> {}, cr2 |-> 0, cr4 |-> {}, efer |-> {}, eventinj |-> NoEvent,
      exception_intercepts |-> { TRAP_no_device },
      dr_intercepts |-> DrInterceptAll, dr6 |-> {}, dr7 |-> {},
      interrupt_shadow |-> 0, vintr_tpr |-> 0, vintr_irq |-> 0,
      vintr_intercept |-> FALSE,
      debugctlmsr |-> 0, lbr_enable |-> 0,
      sysenter_cs |-> 0, sysenter_esp |-> 0, sysenter_eip |-> 0,
      kerngsbase |-> 0, lstar |-> 0, star |-> 0, cstar |-> 0, sfmask |-> 0,
      lbr |-> [ m \in { "MSR_IA32_LASTBRANCHFROMIP", "MSR_IA32_LASTBRANCHTOIP",
                        "MSR_IA32_LASTINTFROMIP", "MSR_IA32_LASTINTTOIP" }
                  |-> 0 ] ]

HostDr == << 0, 0, 0, 0 >>

\* The 3-bit IST field of an IDT entry, and the values IST_DF (1), IST_NMI
\* (2) and IST_MCE (3) as the sets of their bits that are 1.
IstField == 0 .. 2
IST_DF == { 0 }
IST_NMI == { 1 }
IST_MCE == { 0, 1 }

\* The IST fields as the host sets them up, and cleared.
HostIst == [ df |-> IST_DF, nmi |-> IST_NMI, mc |-> IST_MCE ]
NoIst == [ df |-> {}, nmi |-> {}, mc |-> {} ]

\* The state after construction of the vcpu, for a domain whose paging
\* mode is in haps, on a machine in the state b.
InitVcpu(haps, b) ==
    /\ hap \in haps
    /\ boot = b
    /\ cpu = 0
    /\ launch_core = -1
    /\ debug_state_latch = FALSE
    /\ mode = "off"
    /\ guest_cr = InitGuestCr
    /\ guest_efer = {}
    /\ regs = [ eip |-> 0, eflags |-> {}, eax |-> {}, ebx |-> {},
                ecx |-> {}, edx |-> {} ]
    /\ debugreg = [ a |-> HostDr, dr6 |-> {}, dr7 |-> {} ]
    /\ hw_dr = HostDr
    /\ flag_dr_dirty = FALSE
    /\ debugger_attached = FALSE
    /\ active_vmcb = "root"
    /\ ist = HostIst
    /\ vmcb_in_sync = TRUE
    /\ vlapic_tpr = 0
    /\ msrpm_off = {}
    /\ crashed = FALSE
    /\ triple_fault = FALSE
    /\ ctxt = NoCtxt
    /\ h_slot = NoEvent
    /\ h_save = SavedRegs([ guest_cr |-> InitGuestCr, guest_efer |-> {},
                            vmcb |-> BlankVmcb ])
    /\ vmcb = LET st0 == [ vmcb |-> BlankVmcb, guest_cr |-> InitGuestCr,
                           guest_efer |-> {}, ext |-> {} ]
              IN  svm_update_guest_efer(
                    svm_update_guest_cr4(svm_update_guest_cr0(st0, FALSE))).vmcb
    /\ call = [ op |-> "init", in |-> NoInput, rc |-> 0, pre |-> NoEvent,
                disp |-> NoEvent, eip0 |-> 0, launch0 |-> -1, ext |-> {} ]

\* The state after bring-up of the machine and construction of the vcpu.
InitFor(haps) == \E h \in haps : InitVcpu({ h }, Booted(h))

Init == InitFor(BOOLEAN)

(***************************************************************************)
(* World switch.                                                           *)
(***************************************************************************)
\* svm_sync_vmcb(v)
svm_sync_vmcb(st) ==
    IF st.vmcb_in_sync
    THEN st
    ELSE Ext([ st EXCEPT !.vmcb_in_sync = TRUE ], "svm_vmsave")

\* Mutant of svm_ctxt_switch_from: the IST fields are not set again.
svm_ctxt_switch_from_no_ist(st) ==
    LET st1 == svm_sync_vmcb(svm_save_dr(svm_fpu_leave(st)))
    IN  [ st1 EXCEPT !.active_vmcb = "root" ]

\* svm_ctxt_switch_from(v), as built for x86_64: svm_vmload(root_vmcb[cpu])
\* makes the root block the active one.
svm_ctxt_switch_from(st) ==
    LET st1 == svm_sync_vmcb(svm_save_dr(svm_fpu_leave(st)))
    IN  [ st1 EXCEPT !.active_vmcb = "root",
                     !.ist.df = @ \cup IST_DF,
                     !.ist.nmi = @ \cup IST_NMI,
                     !.ist.mc = @ \cup IST_MCE ]

\* svm_ctxt_switch_to(v), as built for x86_64: the IST fields are cleared
\* (&= ~(7UL << 32)) and svm_vmload(vmcb) makes the guest's block the
\* active one.
svm_ctxt_switch_to(st) ==
    LET st1 == svm_restore_dr([ st EXCEPT !.ist.df = @ \ IstField,
                                          !.ist.nmi = @ \ IstField,
                                          !.ist.mc = @ \ IstField ])
    IN  [ st1 EXCEPT !.active_vmcb = "guest" ]

\* Mutant of svm_do_resume: the last-core marker is not updated.
svm_do_resume_no_mark(st) ==
    LET debug_state == st.debugger_attached
        mask == { TRAP_debug, TRAP_int3 }
        st1 == IF st.debug_state_latch # debug_state
               THEN [ st EXCEPT
                        !.debug_state_latch = debug_state,
                        !.vmcb.exception_intercepts =
                            IF debug_state THEN @ \cup mask ELSE @ \ mask ]
               ELSE st
        st2 == IF st1.launch_core # st1.cpu
               THEN Ext(Ext(st1, "hvm_migrate_timers"), "svm_asid_init_vcpu")
               ELSE st1
    IN  Ext([ st2 EXCEPT !.vmcb.vintr_tpr = (st2.vlapic_tpr % 256) \div 16 ],
            "hvm_do_resume")

\* Mutant of svm_do_resume: the interception of the debug and breakpoint
\* exceptions is switched on with the debugger and never off.
svm_do_resume_sticky(st) ==
    LET debug_state == st.debugger_attached
        mask == { TRAP_debug, TRAP_int3 }
        st1 == IF st.debug_state_latch # debug_state
               THEN [ st EXCEPT
                        !.debug_state_latch = debug_state,
                        !.vmcb.exception_intercepts =
                            IF debug_state THEN @ \cup mask ELSE @ ]
               ELSE st
        st2 == IF st1.launch_core # st1.cpu
               THEN Ext(Ext([ st1 EXCEPT !.launch_core = st1.cpu ],
                            "hvm_migrate_timers"), "svm_asid_init_vcpu")
               ELSE st1
    IN  Ext([ st2 EXCEPT !.vmcb.vintr_tpr = (st2.vlapic_tpr % 256) \div 16 ],
            "hvm_do_resume")

\* svm_do_resume(v), up to its jump to svm_asm_do_resume.
svm_do_resume(st) ==
    LET debug_state == st.debugger_attached
        mask == { TRAP_debug, TRAP_int3 }
        st1 == IF st.debug_state_latch # debug_state
               THEN [ st EXCEPT
                        !.debug_state_latch = debug_state,
                        !.vmcb.exception_intercepts =
                            IF debug_state THEN @ \cup mask ELSE @ \ mask ]
               ELSE st
        st2 == IF st1.launch_core # st1.cpu
               THEN Ext(Ext([ st1 EXCEPT !.launch_core = st1.cpu ],
                            "hvm_migrate_timers"), "svm_asid_init_vcpu")
               ELSE st1
    IN  Ext([ st2 EXCEPT !.vmcb.vintr_tpr = (st2.vlapic_tpr % 256) \div 16 ],
            "hvm_do_resume")

(***************************************************************************)
(* MSR intercepts.  in is the exit's input record: in.msr is regs->ecx,    *)
(* in.val the value written, in.ok the answer of the collaborator the      *)
(* access ends in (rdmsr_hypervisor_regs / rdmsr_safe, hvm_set_efer).      *)
(***************************************************************************)
LbrMsrs ==
    { "MSR_IA32_LASTBRANCHFROMIP", "MSR_IA32_LASTBRANCHTOIP",
      "MSR_IA32_LASTINTFROMIP", "MSR_IA32_LASTINTTOIP" }

McMiscMsrs == { "MSR_IA32_MC4_MISC", "MSR_F10_MC4_MISC1" }

ReadTableMsrs ==
    { "MSR_IA32_TSC", "MSR_IA32_APICBASE", "MSR_EFER",
      "MSR_IA32_EBC_FREQUENCY_ID", "MSR_IA32_MCG_CAP", "MSR_IA32_MC0_STATUS",
      "MSR_IA32_DEBUGCTLMSR" } \cup McMiscMsrs \cup LbrMsrs

\* The MSRs enumerated as inputs; MSR_OTHER is one outside every table.
Msrs == ReadTableMsrs \cup { "MSR_K8_VM_HSAVE_PA", "MSR_OTHER" }

\* svm_msr_read_intercept(regs)
svm_msr_read_intercept(st, in) ==
    CASE in.msr = "MSR_K8_VM_HSAVE_PA" ->
            Return(svm_inject_exception(st, TRAP_gp_fault, 0, 0),
                   X86EMUL_EXCEPTION)
      [] in.msr = "MSR_IA32_TSC" ->
            Return(Ext(st, "hvm_get_guest_time"), X86EMUL_OKAY)
      [] in.msr \in ReadTableMsrs \ { "MSR_IA32_TSC" } ->
            Return(st, X86EMUL_OKAY)
      [] OTHER ->
            IF in.ok
            THEN Return(Ext(st, "rdmsr"), X86EMUL_OKAY)
            ELSE Return(svm_inject_exception(Ext(st, "rdmsr"),
                                             TRAP_gp_fault, 0, 0),
                        X86EMUL_EXCEPTION)

\* Mutant of long_mode_do_msr_write: a write that nothing accepts raises a
\* general-protection fault.
long_mode_do_msr_write_strict(st, in) ==
    CASE in.msr = "MSR_EFER" ->
            IF in.ok
            THEN [ st |-> Ext(st, "hvm_set_efer"), r |-> "done" ]
            ELSE [ st |-> svm_inject_exception(Ext(st, "hvm_set_efer"),
                                               TRAP_gp_fault, 0, 0),
                   r |-> "exception_raised" ]
      [] in.msr \in McMiscMsrs -> [ st |-> st, r |-> "done" ]
      [] OTHER ->
            IF in.ok
            THEN [ st |-> st, r |-> "unhandled" ]
            ELSE [ st |-> svm_inject_exception(st, TRAP_gp_fault, 0, 0),
                   r |-> "exception_raised" ]

\* long_mode_do_msr_write(regs): "done", "unhandled" or "exception_raised".
\* A rejected EFER value has hvm_set_efer inject #GP.
long_mode_do_msr_write(st, in) ==
    CASE in.msr = "MSR_EFER" ->
            IF in.ok
            THEN [ st |-> Ext(st, "hvm_set_efer"), r |-> "done" ]
            ELSE [ st |-> svm_inject_exception(Ext(st, "hvm_set_efer"),
                                               TRAP_gp_fault, 0, 0),
                   r |-> "exception_raised" ]
      [] in.msr \in McMiscMsrs -> [ st |-> st, r |-> "done" ]
      [] OTHER -> [ st |-> st, r |-> "unhandled" ]

\* svm_msr_write_intercept(regs) for the MSRs other than
\* MSR_K8_VM_HSAVE_PA; in.lbrv is cpu_has_svm_lbrv.
svm_msr_write_others(st, in) ==
    CASE in.msr = "MSR_IA32_TSC" ->
            Return(Ext(Ext(st, "hvm_set_guest_time"), "pt_reset"),
                   X86EMUL_OKAY)
      [] in.msr = "MSR_IA32_APICBASE" ->
            Return(Ext(st, "vlapic_msr_set"), X86EMUL_OKAY)
      [] in.msr = "MSR_IA32_DEBUGCTLMSR" ->
            LET st1 == [ st EXCEPT !.vmcb.debugctlmsr = in.val ]
            IN  IF in.val = 0 \/ ~in.lbrv
                THEN Return(st1, X86EMUL_OKAY)
                ELSE Return([ st1 EXCEPT
                                !.vmcb.lbr_enable = 1,
                                !.msrpm_off = @ \cup LbrMsrs
                                    \cup { "MSR_IA32_DEBUGCTLMSR" } ],
                            X86EMUL_OKAY)
      [] in.msr \in LbrMsrs ->
            Return([ st EXCEPT !.vmcb.lbr[in.msr] = in.val ], X86EMUL_OKAY)
      [] OTHER ->
            LET w == long_mode_do_msr_write(st, in)
            IN  CASE w.r = "unhandled" ->
                        Return(Ext(w.st, "wrmsr_hypervisor_regs"),
                               X86EMUL_OKAY)
                  [] w.r = "exception_raised" ->
                        Return(w.st, X86EMUL_EXCEPTION)
                  [] OTHER -> Return(w.st, X86EMUL_OKAY)

\* Mutant of svm_msr_write_intercept: MSR_K8_VM_HSAVE_PA is written like
\* an MSR outside the table.
svm_msr_write_intercept_hsave(st, in) == svm_msr_write_others(st, in)

\* svm_msr_write_intercept(regs)
svm_msr_write_intercept(st, in) ==
    IF in.msr = "MSR_K8_VM_HSAVE_PA"
    THEN Return(svm_inject_exception(st, TRAP_gp_fault, 0, 0),
                X86EMUL_EXCEPTION)
    ELSE svm_msr_write_others(st, in)

\* Mutant of svm_do_msr_access: the instruction pointer is advanced
\* whatever the intercept returned.
svm_do_msr_access_always(st, in) ==
    LET st1 == IF in.exitinfo1 = 0
               THEN svm_msr_read_intercept(st, in)
               ELSE svm_msr_write_intercept(st, in)
    IN  update_guest_eip(st1, in.inst_len)

\* svm_do_msr_access(regs): exitinfo1 is 0 for RDMSR; in.inst_len is what
\* __get_instruction_length returns.
svm_do_msr_access(st, in) ==
    LET st1 == IF in.exitinfo1 = 0
               THEN svm_msr_read_intercept(st, in)
               ELSE svm_msr_write_intercept(st, in)
    IN  IF st1.rc = X86EMUL_OKAY
        THEN update_guest_eip(st1, in.inst_len)
        ELSE st1

\* Mutant of svm_vmexit_do_hlt: the injection slot is not looked at.
svm_vmexit_do_hlt_blind(st, in) ==
    IF in.inst_len = 0
    THEN st
    ELSE LET st1 == update_guest_eip(st, in.inst_len)
         IN  IF in.intack /\ ~in.blocked
             THEN st1
             ELSE Ext(st1, "hvm_hlt")

\* Mutant of svm_vmexit_do_hlt: a blocked interrupt source keeps the vcpu
\* awake.
svm_vmexit_do_hlt_awake(st, in) ==
    IF in.inst_len = 0
    THEN st
    ELSE LET st1 == update_guest_eip(st, in.inst_len)
         IN  IF st1.vmcb.eventinj.v = 1 \/ in.intack
             THEN st1
             ELSE Ext(st1, "hvm_hlt")

\* svm_vmexit_do_hlt(vmcb, regs): in.intack is (intack.source !=
\* hvm_intsrc_none), in.blocked is hvm_interrupt_blocked(current, intack).
svm_vmexit_do_hlt(st, in) ==
    IF in.inst_len = 0
    THEN st
    ELSE LET st1 == update_guest_eip(st, in.inst_len)
         IN  IF st1.vmcb.eventinj.v = 1 \/ (in.intack /\ ~in.blocked)
             THEN st1
             ELSE Ext(st1, "hvm_hlt")

(***************************************************************************)
(* CPUID.  A 32-bit register is the set of its bits that are 1; a feature  *)
(* is numbered 32 * word + bit.                                            *)
(***************************************************************************)
AllBits == 0 .. 31

X86_FEATURE(f) ==
    CASE f = "PAE" -> 0 * 32 + 6
      [] f = "APIC" -> 0 * 32 + 9
      [] f = "PSE36" -> 0 * 32 + 17
      [] f = "SYSCALL" -> 1 * 32 + 11
      [] f = "MP" -> 1 * 32 + 19
      [] f = "NX" -> 1 * 32 + 20
      [] f = "MMXEXT" -> 1 * 32 + 22
      [] f = "FFXSR" -> 1 * 32 + 25
      [] f = "LM" -> 1 * 32 + 29
      [] f = "SSSE3" -> 4 * 32 + 9
      [] f = "SSE4_1" -> 4 * 32 + 19
      [] f = "SSE4_2" -> 4 * 32 + 20
      [] f = "LAHF_LM" -> 6 * 32 + 0
      [] f = "ALTMOVCR" -> 6 * 32 + 4
      [] f = "ABM" -> 6 * 32 + 5
      [] f = "SSE4A" -> 6 * 32 + 6
      [] f = "MISALIGNSSE" -> 6 * 32 + 7
      [] f = "3DNOWPF" -> 6 * 32 + 8

\* bitmaskof(idx), as the bit it sets.
bitmaskof(idx) == idx % 32

\* 0x0183f3ff: the features shared with 0x00000001:EDX.
SharedEdxFeatures == (0 .. 9) \cup (12 .. 17) \cup { 23, 24 }

\* The whitelists of leaf 0x80000001.
ExtFeatureWhitelistEcx ==
    { bitmaskof(X86_FEATURE("LAHF_LM")), bitmaskof(X86_FEATURE("ALTMOVCR")),
      bitmaskof(X86_FEATURE("ABM")), bitmaskof(X86_FEATURE("SSE4A")),
      bitmaskof(X86_FEATURE("MISALIGNSSE")), bitmaskof(X86_FEATURE("3DNOWPF")) }

ExtFeatureWhitelistEdx ==
    SharedEdxFeatures \cup
    { bitmaskof(X86_FEATURE("NX")), bitmaskof(X86_FEATURE("LM")),
      bitmaskof(X86_FEATURE("SYSCALL")), bitmaskof(X86_FEATURE("MP")),
      bitmaskof(X86_FEATURE("MMXEXT")), bitmaskof(X86_FEATURE("FFXSR")) }

\* Mutant of svm_cpuid_intercept: what hvm_cpuid returned is passed on.
svm_cpuid_intercept_raw(in) == in.raw

\* svm_cpuid_intercept(&eax, &ebx, &ecx, &edx): in.leaf is the input *eax,
\* in.raw what hvm_cpuid returns for it, in.apic_off is
\* vlapic_hw_disabled(), in.pae that the build has CONFIG_PAGING_LEVELS >= 3
\* and the domain HVM_PARAM_PAE_ENABLED.
svm_cpuid_intercept(in) ==
    LET r == in.raw
    IN  CASE in.leaf = "0x00000001" ->
                [ r EXCEPT !.ecx = @ \ { bitmaskof(X86_FEATURE("SSSE3")),
                                         bitmaskof(X86_FEATURE("SSE4_1")),
                                         bitmaskof(X86_FEATURE("SSE4_2")) } ]
          [] in.leaf = "0x80000001" ->
                LET edx1 == IF in.apic_off
                            THEN r.edx \ { X86_FEATURE("APIC") % 32 }
                            ELSE r.edx
                    edx2 == IF ~in.pae
                            THEN edx1 \ { X86_FEATURE("PAE") % 32 }
                            ELSE edx1
                    edx3 == edx2 \ { X86_FEATURE("PSE36") % 32 }
                IN  [ r EXCEPT !.ecx = @ \cap ExtFeatureWhitelistEcx,
                               !.edx = edx3 \cap ExtFeatureWhitelistEdx ]
          [] in.leaf \in { "0x80000007", "0x8000000A" } ->
                [ eax |-> {}, ebx |-> {}, ecx |-> {}, edx |-> {} ]
          [] in.leaf = "0x80000008" ->
                [ r EXCEPT !.ecx = @ \cap (8 .. 31) ]
          [] OTHER -> r

\* svm_vmexit_do_cpuid(regs)
svm_vmexit_do_cpuid(st, in) ==
    IF in.inst_len = 0
    THEN st
    ELSE LET r == svm_cpuid_intercept(in)
             st1 == [ Ext(st, "hvm_cpuid") EXCEPT
                        !.regs.eax = r.eax, !.regs.ebx = r.ebx,
                        !.regs.ecx = r.ecx, !.regs.edx = r.edx ]
         IN  update_guest_eip(st1, in.inst_len)

\* svm_vmexit_do_invalidate_cache(regs); in.ok: a pass-through device is
\* attached.
svm_vmexit_do_invalidate_cache(st, in) ==
    update_guest_eip(IF in.ok THEN Ext(st, "on_each_cpu(wbinvd_ipi)") ELSE st,
                     in.inst_len)

\* svm_do_nested_pgfault(gpa, regs); in.mmio: the frame is emulated MMIO,
\* in.ok: handle_mmio() handled it.
svm_do_nested_pgfault(st, in) ==
    IF in.mmio
    THEN IF in.ok
         THEN Ext(st, "handle_mmio")
         ELSE svm_inject_exception(Ext(st, "handle_mmio"), TRAP_gp_fault, 0, 0)
    ELSE Ext(Ext(st, "paging_mark_dirty"), "p2m_change_type")

\* svm_dr_access(v, regs)
svm_dr_access(st) == restore_debug_registers(st)

(***************************************************************************)
(* The exit dispatch loop.                                                 *)
(***************************************************************************)
AsyncExits ==
    { "VMEXIT_INTR", "VMEXIT_NMI", "VMEXIT_SMI", "VMEXIT_EXCEPTION_MC" }

EmulatedExits ==
    { "VMEXIT_CR0_READ", "VMEXIT_CR0_WRITE", "VMEXIT_INVLPG",
      "VMEXIT_INVLPGA", "VMEXIT_IOIO" }

DrExits == { "VMEXIT_DR0_READ", "VMEXIT_DR7_WRITE" }

IllegalInstrExits ==
    { "VMEXIT_RDTSCP", "VMEXIT_MONITOR", "VMEXIT_MWAIT", "VMEXIT_VMRUN",
      "VMEXIT_VMLOAD", "VMEXIT_VMSAVE", "VMEXIT_STGI", "VMEXIT_CLGI",
      "VMEXIT_SKINIT" }

\* The exit codes enumerated as inputs; VMEXIT_UNKNOWN is one the switch
\* has no case for.
ExitReasons ==
    AsyncExits \cup EmulatedExits \cup DrExits \cup IllegalInstrExits \cup
    { "VMEXIT_INVALID", "VMEXIT_EXCEPTION_DB", "VMEXIT_EXCEPTION_BP",
      "VMEXIT_EXCEPTION_NM", "VMEXIT_EXCEPTION_PF", "VMEXIT_VINTR",
      "VMEXIT_INVD", "VMEXIT_WBINVD", "VMEXIT_TASK_SWITCH", "VMEXIT_CPUID",
      "VMEXIT_HLT", "VMEXIT_VMMCALL", "VMEXIT_MSR", "VMEXIT_SHUTDOWN",
      "VMEXIT_NPF", "VMEXIT_UNKNOWN" }

\* exit_and_crash
exit_and_crash(st) == domain_crash(st)

\* Mutant of the cases VMEXIT_RDTSCP ... VMEXIT_SKINIT: they are left to
\* the default case.
svm_vmexit_illegal_instr_crash(st) == exit_and_crash(st)

\* The cases VMEXIT_RDTSCP ... VMEXIT_SKINIT of the switch.
svm_vmexit_illegal_instr(st) ==
    svm_inject_exception(st, TRAP_invalid_op, HVM_DELIVER_NO_ERROR_CODE, 0)

\* Mutant of the case VMEXIT_VMMCALL: the instruction pointer is advanced
\* whether or not the hypercall was preempted.
svm_vmexit_vmmcall_always(st, in) ==
    IF in.inst_len = 0
    THEN st
    ELSE LET st1 == Ext(st, "hvm_do_hypercall")
             st2 == update_guest_eip(st1, in.inst_len)
         IN  IF in.hcall = "invalidate"
             THEN Ext(st2, "send_invalidate_req")
             ELSE st2

\* The case VMEXIT_VMMCALL of the switch; in.hcall is what
\* hvm_do_hypercall returns: "preempted", "invalidate" or "completed".
svm_vmexit_vmmcall(st, in) ==
    IF in.inst_len = 0
    THEN st
    ELSE LET st1 == Ext(st, "hvm_do_hypercall")
         IN  IF in.hcall = "preempted"
             THEN st1
             ELSE LET st2 == update_guest_eip(st1, in.inst_len)
                  IN  IF in.hcall = "invalidate"
                      THEN Ext(st2, "send_invalidate_req")
                      ELSE st2

\* The switch of svm_vmexit_handler on the exit reason.
vmexit_switch(st, in) ==
    LET r == in.exit_reason
    IN  CASE r \in AsyncExits -> st
          [] r = "VMEXIT_EXCEPTION_DB" ->
                IF ~st.debugger_attached
                THEN exit_and_crash(st)
                ELSE Ext(st, "domain_pause_for_debugger")
          [] r = "VMEXIT_EXCEPTION_BP" ->
                IF ~st.debugger_attached
                THEN exit_and_crash(st)
                ELSE Ext(update_guest_eip(st, in.inst_len),
                         "domain_pause_for_debugger")
          [] r = "VMEXIT_EXCEPTION_NM" -> svm_fpu_dirty_intercept(st)
          [] r = "VMEXIT_EXCEPTION_PF" ->
                IF in.ok
                THEN Ext(st, "paging_fault")
                ELSE svm_inject_exception(Ext(st, "paging_fault"),
                         TRAP_page_fault, in.exitinfo1, in.exitinfo2)
          [] r = "VMEXIT_VINTR" ->
                [ st EXCEPT !.vmcb.vintr_irq = 0,
                            !.vmcb.vintr_intercept = FALSE ]
          [] r \in { "VMEXIT_INVD", "VMEXIT_WBINVD" } ->
                svm_vmexit_do_invalidate_cache(st, in)
          [] r = "VMEXIT_TASK_SWITCH" -> Ext(st, "hvm_task_switch")
          [] r = "VMEXIT_CPUID" -> svm_vmexit_do_cpuid(st, in)
          [] r = "VMEXIT_HLT" -> svm_vmexit_do_hlt(st, in)
          [] r \in EmulatedExits ->
                IF in.ok
                THEN Ext(st, "handle_mmio")
                ELSE svm_inject_exception(Ext(st, "handle_mmio"),
                                          TRAP_gp_fault, 0, 0)
          [] r = "VMEXIT_VMMCALL" -> svm_vmexit_vmmcall(st, in)
          [] r \in DrExits -> svm_dr_access(st)
          [] r = "VMEXIT_MSR" -> svm_do_msr_access(st, in)
          [] r = "VMEXIT_SHUTDOWN" -> hvm_triple_fault(st)
          [] r \in IllegalInstrExits -> svm_vmexit_illegal_instr(st)
          [] r = "VMEXIT_NPF" -> svm_do_nested_pgfault(st, in)
          [] OTHER -> exit_and_crash(st)

\* Mutant of svm_vmexit_handler: VMEXIT_INVALID is dispatched like any
\* other exit code.
svm_vmexit_handler_dispatch_invalid(st, in) ==
    LET st1 == [ st EXCEPT !.vlapic_tpr = (st.vmcb.vintr_tpr % 16) * 16 ]
        e == in.exitintinfo
        st3 == IF e.v = 1 /\ hvm_event_needs_reinjection(e.type, e.vector)
               THEN [ st1 EXCEPT !.vmcb.eventinj = e ]
               ELSE st1
        st2 == vmexit_switch([ st3 EXCEPT !.disp = st3.vmcb.eventinj ], in)
    IN  [ st2 EXCEPT !.vmcb.vintr_tpr = (st2.vlapic_tpr % 256) \div 16 ]

\* Mutant of svm_vmexit_handler: exitintinfo is not looked at.
svm_vmexit_handler_no_reflect(st, in) ==
    LET st1 == [ st EXCEPT !.vlapic_tpr = (st.vmcb.vintr_tpr % 16) * 16 ]
        st2 == IF in.exit_reason = "VMEXIT_INVALID"
               THEN exit_and_crash(Ext(st1, "svm_dump_vmcb"))
               ELSE vmexit_switch([ st1 EXCEPT !.disp = st1.vmcb.eventinj ],
                                  in)
    IN  [ st2 EXCEPT !.vmcb.vintr_tpr = (st2.vlapic_tpr % 256) \div 16 ]

\* svm_vmexit_handler(regs)
svm_vmexit_handler(st, in) ==
    LET st1 == [ st EXCEPT !.vlapic_tpr = (st.vmcb.vintr_tpr % 16) * 16 ]
        st2 ==
            IF in.exit_reason = "VMEXIT_INVALID"
            THEN exit_and_crash(Ext(st1, "svm_dump_vmcb"))
            ELSE LET e == in.exitintinfo
                     st3 == IF e.v = 1 /\
                               hvm_event_needs_reinjection(e.type, e.vector)
                            THEN [ st1 EXCEPT !.vmcb.eventinj = e ]
                            ELSE st1
                 IN  vmexit_switch([ st3 EXCEPT !.disp = st3.vmcb.eventinj ],
                                   in)
    IN  [ st2 EXCEPT !.vmcb.vintr_tpr = (st2.vlapic_tpr % 256) \div 16 ]

\* VMEXIT_INVALID is the exit code of a VMRUN that refused the control
\* block, and of no other exit.
VmExit(in) ==
    /\ \/ mode = "guest" /\ in.exit_reason # "VMEXIT_INVALID"
       \/ mode = "failed" /\ in.exit_reason = "VMEXIT_INVALID"
    /\ LET st == svm_vmexit_handler(Cur, in)
       IN  Commit(st) /\ call' = Call("svm_vmexit_handler", in, st)
    /\ mode' = "host"
    /\ UNCHANGED << hap, ctxt, h_slot >>

CtxtSwitchTo ==
    /\ mode = "off"
    /\ LET st == svm_ctxt_switch_to(Cur)
       IN  Commit(st) /\ call' = Call("svm_ctxt_switch_to", NoInput, st)
    /\ mode' = "host"
    /\ UNCHANGED << hap, ctxt, h_slot >>

CtxtSwitchFrom ==
    /\ mode = "host"
    /\ LET st == svm_ctxt_switch_from(Cur)
       IN  Commit(st) /\ call' = Call("svm_ctxt_switch_from", NoInput, st)
    /\ mode' = "off"
    /\ UNCHANGED << hap, ctxt, h_slot >>

\* While v is descheduled the core's debug registers hold whatever the
\* host or another vcpu loads.
OtherUsesCore(dr) ==
    /\ mode = "off"
    /\ LET st == [ Cur EXCEPT !.hw_dr = dr ]
       IN  Commit(st) /\ call' = Call("other", NoInput, st)
    /\ UNCHANGED << hap, mode, ctxt, h_slot >>

\* Guest entry: VMRUN delivers the event of the injection slot and the
\* guest runs until the next exit.  g is what the guest did: its new
\* instruction pointer and flags, the interrupt shadow it was in at the
\* exit, the task priority it set, and, when its debug-register accesses
\* are not intercepted, its debug registers.
GuestRun(st, g) ==
    LET free == st.vmcb.dr_intercepts = {}
    IN  [ st EXCEPT !.vmcb_in_sync = FALSE,
                    !.regs.eip = g.eip,
                    !.regs.eflags = g.eflags,
                    !.vmcb.eventinj.v = 0,
                    !.vmcb.interrupt_shadow = g.shadow,
                    !.vmcb.vintr_tpr = g.tpr,
                    !.vmcb.dr7 = IF free THEN g.dr7 ELSE @,
                    !.hw_dr = IF free THEN g.dr ELSE @ ]

VmEntry(g) ==
    /\ mode = "host"
    /\ ~crashed /\ ~triple_fault
    /\ LET st == GuestRun(Cur, g)
       IN  Commit(st) /\ call' = Call("vmrun", NoInput, st)
    /\ mode' = "guest"
    /\ UNCHANGED << hap, ctxt, h_slot >>

\* VMRUN refuses the control block: nothing is delivered, the guest does
\* not run, and the exit that follows has the code VMEXIT_INVALID.
VmRunFails ==
    /\ mode = "host"
    /\ ~crashed /\ ~triple_fault
    /\ Commit(Cur) /\ call' = Call("vmrun", NoInput, Cur)
    /\ mode' = "failed"
    /\ UNCHANGED << hap, ctxt, h_slot >>

\* schedule_tail of a vcpu that was scheduled in: svm_do_resume(v), which
\* ends in svm_asm_do_resume, that is in VMRUN; the guest then does g.
DoResume(g) ==
    /\ mode = "host"
    /\ ~crashed /\ ~triple_fault
    /\ LET st == svm_do_resume(Cur)
       IN  Commit(GuestRun(st, g)) /\ call' = Call("svm_do_resume", NoInput, st)
    /\ mode' = "guest"
    /\ UNCHANGED << hap, ctxt, h_slot >>

\* The loop of svm_asm_do_resume: after svm_vmexit_handler has returned
\* the guest is entered again, without svm_do_resume.
Reenter(g) == call.op = "svm_vmexit_handler" /\ VmEntry(g)

\* The scheduler moves the descheduled vcpu to the core c.
Migrate(c) ==
    /\ mode = "off"
    /\ c # cpu
    /\ LET st == [ Cur EXCEPT !.cpu = c ]
       IN  Commit(st) /\ call' = Call("migrate", NoInput, st)
    /\ UNCHANGED << hap, mode, ctxt, h_slot >>

\* A debugger attaches to the domain or detaches (XEN_DOMCTL_setdebugging).
SetDebugger(b) ==
    /\ b # debugger_attached
    /\ LET st == [ Cur EXCEPT !.debugger_attached = b ]
       IN  Commit(st) /\ call' = Call("setdebugging", NoInput, st)
    /\ UNCHANGED << hap, mode, ctxt, h_slot >>

\* The canonical CR0 is set to val and projected: svm_update_guest_cr(v, 0),
\* for the running vcpu or, while it is descheduled, remotely.
UpdateGuestCr0(val) ==
    /\ mode \in { "off", "host" }
    /\ LET st == svm_update_guest_cr0(
                    [ Cur EXCEPT !.guest_cr.cr0 = val ], mode # "off")
       IN  Commit(st) /\ call' = Call("svm_update_guest_cr0", NoInput, st)
    /\ UNCHANGED << hap, mode, ctxt, h_slot >>

\* The canonical CR4 is set to val and projected: svm_update_guest_cr(v, 4).
UpdateGuestCr4(val) ==
    /\ mode \in { "off", "host" }
    /\ LET st == svm_update_guest_cr4([ Cur EXCEPT !.guest_cr.cr4 = val ])
       IN  Commit(st) /\ call' = Call("svm_update_guest_cr4", NoInput, st)
    /\ UNCHANGED << hap, mode, ctxt, h_slot >>

\* The canonical EFER is set to val and projected: svm_update_guest_efer(v).
UpdateGuestEfer(val) ==
    /\ mode \in { "off", "host" }
    /\ LET st == svm_update_guest_efer([ Cur EXCEPT !.guest_efer = val ])
       IN  Commit(st) /\ call' = Call("svm_update_guest_efer", NoInput, st)
    /\ UNCHANGED << hap, mode, ctxt, h_slot >>

\* hvm_inject_exception(trapnr, errcode, cr2) on the running vcpu.
InjectException(trapnr, errcode, cr2) ==
    /\ mode = "host"
    /\ LET st == svm_inject_exception(Cur, trapnr, errcode, cr2)
       IN  /\ Commit(st)
           /\ call' = Call("svm_inject_exception",
                           [ NoInput EXCEPT !.trapnr = trapnr,
                                            !.errcode = errcode,
                                            !.val = cr2 ], st)
    /\ UNCHANGED << hap, mode, ctxt, h_slot >>

\* The save of the vcpu's record while it is descheduled:
\* svm_save_vmcb_ctxt(v, ctxt).
SaveVmcbCtxt ==
    /\ mode = "off"
    /\ h_slot' = vmcb.eventinj
    /\ LET r == svm_save_vmcb_ctxt(Cur, ctxt)
       IN  /\ ctxt' = [ r.c EXCEPT !.origin = "saved" ]
           /\ Commit([ r.st EXCEPT !.h_save = SavedRegs(Cur) ])
           /\ call' = Call("svm_save_vmcb_ctxt", NoInput, r.st)
    /\ UNCHANGED << hap, mode >>

\* A record c that was not saved from this vcpu arrives for loading.
ReceiveCtxt(c) ==
    /\ mode = "off"
    /\ ctxt' = c
    /\ h_slot' = NoEvent
    /\ Commit([ Cur EXCEPT !.h_save =
                  SavedRegs([ guest_cr |-> InitGuestCr, guest_efer |-> {},
                              vmcb |-> BlankVmcb ]) ])
    /\ call' = Call("receive", NoInput, Cur)
    /\ UNCHANGED << hap, mode >>

\* The load of the record into the descheduled vcpu:
\* svm_load_vmcb_ctxt(v, ctxt).
LoadVmcbCtxt(cr3_ok) ==
    /\ mode = "off"
    /\ ctxt.origin # "none"
    /\ LET st == svm_load_vmcb_ctxt(Cur, ctxt, cr3_ok, FALSE)
       IN  /\ Commit(st)
           /\ call' = Call("svm_load_vmcb_ctxt",
                           [ NoInput EXCEPT !.ok = cr3_ok ], st)
    /\ UNCHANGED << hap, mode, ctxt, h_slot >>

\* The guest writes the SYSENTER MSRs, the SYSCALL MSRs and the shadow GS
\* base (SWAPGS, WRMSR), none of which svm.c intercepts: se and sc are
\* their new values.
GuestSetMsrs(se, sc) ==
    /\ mode = "guest"
    /\ LET st == [ Cur EXCEPT !.vmcb.sysenter_cs = se[1],
                              !.vmcb.sysenter_esp = se[2],
                              !.vmcb.sysenter_eip = se[3],
                              !.vmcb.kerngsbase = sc[1],
                              !.vmcb.lstar = sc[2],
                              !.vmcb.star = sc[3],
                              !.vmcb.cstar = sc[4],
                              !.vmcb.sfmask = sc[5] ]
       IN  Commit(st) /\ call' = Call("guest_wrmsr", NoInput, st)
    /\ UNCHANGED << hap, mode, ctxt, h_slot >>

\* start_svm(c) on a core on which it was not called before.
StartSvm(core, probe) ==
    /\ mode = "off"
    /\ core \notin boot.called
    /\ LET st == start_svm(Cur, core, probe)
       IN  /\ Commit(st)
           /\ call' = Call("start_svm",
                           [ NoInput EXCEPT !.core = core, !.probe = probe ], st)
    /\ UNCHANGED << hap, mode, ctxt, h_slot >>

(***************************************************************************)
(* Inputs shared by the specifications.                                    *)
(***************************************************************************)
\* A guest that leaves the debug registers and the task priority alone.
QuietGuest ==
    [ eip |-> 0, eflags |-> {}, shadow |-> 0, tpr |-> 0, dr |-> HostDr,
      dr7 |-> {} ]

Exit(reason) == [ NoInput EXCEPT !.exit_reason = reason ]

(***************************************************************************)
(* SpecCr: CR0 projection, lazy FPU and world switches.                    *)
(***************************************************************************)
NextCr ==
    \/ \E val \in SUBSET Cr0Bits : UpdateGuestCr0(val)
    \/ \E val \in SUBSET Cr4Bits : UpdateGuestCr4(val)
    \/ \E val \in SUBSET (EferBits \ { "SCE" }) : UpdateGuestEfer(val)
    \/ CtxtSwitchTo
    \/ CtxtSwitchFrom
    \/ VmEntry(QuietGuest)
    \/ \E r \in { "VMEXIT_EXCEPTION_NM", "VMEXIT_INTR" } : VmExit(Exit(r))

SpecCr == Init /\ [][NextCr]_vars

\* C1: with hardware-assisted paging disabled, the control block's CR0 has
\* paging-enable (PG) and write-protect (WP) set after every CR0 update,
\* whatever canonical value is supplied, and after every later
\* svm_fpu_enter, svm_fpu_leave, svm_fpu_dirty_intercept and CR0 update.
C1_ShadowCr0HasPgWp == ~hap => { "PG", "WP" } \subseteq vmcb.cr0

\* C1 witness: a CR0 update with PG clear in the canonical value, followed
\* by a lazy-FPU fault, without hardware-assisted paging.
C1_Witness ==
    /\ ~hap
    /\ "PG" \notin guest_cr.cr0
    /\ "WP" \notin guest_cr.cr0
    /\ call.op = "svm_vmexit_handler"
    /\ call.in.exit_reason = "VMEXIT_EXCEPTION_NM"
    /\ "setup_fpu" \in call.ext

(***************************************************************************)
(* SpecInj: sequences of exception injections between guest entries.       *)
(***************************************************************************)
\* A guest that single-steps (EFLAGS.TF set).
SteppingGuest == [ QuietGuest EXCEPT !.eflags = { "TF" } ]

ErrCodes == { HVM_DELIVER_NO_ERROR_CODE } \cup Vals

NextInj ==
    \/ \E t \in Vectors, e \in ErrCodes :
            \E a \in IF t = TRAP_page_fault THEN Vals ELSE { 0 } :
                InjectException(t, e, a)
    \/ CtxtSwitchTo
    \/ CtxtSwitchFrom
    \/ \E g \in { QuietGuest, SteppingGuest } : VmEntry(g)
    \/ VmExit(Exit("VMEXIT_INTR"))

SpecInj == InitFor({ FALSE }) /\ [][NextInj]_vars

IsHwException(e) == e.v = 1 /\ e.type = X86_EVENTTYPE_HW_EXCEPTION

ForeignEvents ==
    { [ v |-> v, type |-> t, vector |-> TRAP_gp_fault, ev |-> 1,
        resvd1 |-> r, errorcode |-> MaxVal ] :
        v \in { 0, 1 }, t \in { 0, 1, 3, 4, 7 }, r \in { 0, 1 } }
    \cup { [ v |-> 1, type |-> X86_EVENTTYPE_HW_EXCEPTION,
             vector |-> TRAP_int3, ev |-> 0, resvd1 |-> 0,
             errorcode |-> 0 ] }

ForeignCtxts ==
    { [ origin |-> "foreign", cr0 |-> cr.cr0, cr2 |-> cr.cr2, cr3 |-> cr.cr3,
        cr4 |-> cr.cr4, msr_efer |-> cr.efer,
        sysenter_cs |-> cr.msr[1], sysenter_esp |-> cr.msr[2],
        sysenter_eip |-> cr.msr[3], shadow_gs |-> cr.msr[4],
        msr_lstar |-> cr.msr[5], msr_star |-> cr.msr[6],
        msr_cstar |-> cr.msr[7], msr_syscall_mask |-> cr.msr[8],
        pending_event |-> EventinjLow32(e), error_code |-> e.errorcode ] :
        e \in ForeignEvents,
        cr \in { [ cr0 |-> {}, cr2 |-> 0, cr3 |-> 0, cr4 |-> {},
                   efer |-> {}, msr |-> << 0, 0, 0, 0, 0, 0, 0, 0 >> ],
                 [ cr0 |-> { "PG", "TS" }, cr2 |-> MaxVal, cr3 |-> MaxVal,
                   cr4 |-> { "PGE" }, efer |-> { "LME", "LMA" },
                   msr |-> << 1, 2, 3, 4, 5, 6, 7, 8 >> ] } }

\* The delivery of external interrupt 48 was cut short by a page fault
\* that the paging code resolves: a shadow fault or, under
\* hardware-assisted paging, a nested fault.
ReflectedIntr(reason) ==
    [ Exit(reason) EXCEPT
        !.exitintinfo = [ NoEvent EXCEPT !.v = 1, !.vector = 48,
                                         !.type = X86_EVENTTYPE_EXT_INTR ] ]

NextSave ==
    \/ \E t \in { TRAP_int3, TRAP_gp_fault }, e \in ErrCodes :
            InjectException(t, e, 0)
    \/ CtxtSwitchTo
    \/ CtxtSwitchFrom
    \/ VmEntry(QuietGuest)
    \/ \E in \in { Exit("VMEXIT_INTR"),
                    ReflectedIntr(IF hap THEN "VMEXIT_NPF"
                                  ELSE "VMEXIT_EXCEPTION_PF") } : VmExit(in)
    \/ SaveVmcbCtxt
    \/ \E c \in ForeignCtxts : ReceiveCtxt(c)
    \/ \E cr3_ok \in BOOLEAN : LoadVmcbCtxt(cr3_ok)

SpecSave == Init /\ [][NextSave]_vars

\* The validation of svm_vmcb_restore fails for the pending event of c.
InvalidPending(c) ==
    /\ pending_valid(c.pending_event) = 1
    /\ \/ pending_type(c.pending_event) = 1
       \/ pending_type(c.pending_event) > 6
       \/ pending_reserved(c.pending_event) # 0

\* C3: a load of a record whose pending event is valid and has type 1, a
\* type above 6 or a nonzero reserved field returns the validation error
\* and leaves the injection slot, the canonical CR0, CR2, CR3 and CR4 and
\* the control block's CR0, CR2 and CR4 as they were before the call.
C3_RestoreRejectsInvalidPending ==
    [][ ( call'.op = "svm_load_vmcb_ctxt" /\ InvalidPending(ctxt) )
        => /\ call'.rc = -EINVAL
           /\ vmcb'.eventinj = vmcb.eventinj
           /\ guest_cr' = guest_cr
           /\ vmcb'.cr0 = vmcb.cr0
           /\ vmcb'.cr2 = vmcb.cr2
           /\ vmcb'.cr4 = vmcb.cr4 ]_vars

\* C3 witness: a record with a valid pending event of type 1, whose control
\* registers differ from the vcpu's, was refused.
C3_Witness ==
    /\ call.op = "svm_load_vmcb_ctxt"
    /\ pending_valid(ctxt.pending_event) = 1
    /\ pending_type(ctxt.pending_event) = 1
    /\ pending_reserved(ctxt.pending_event) = 0
    /\ call.rc = -EINVAL
    /\ "PG" \in ctxt.cr0 /\ "PG" \notin guest_cr.cr0
    /\ ctxt.cr2 # guest_cr.cr2

\* The fields of an injection slot that the save record carries.
SlotFields(e) == << e.v, e.type, e.vector, e.ev, e.errorcode >>

\* C4: a successful load of the record that svm_save_vmcb_ctxt wrote leaves
\* the injection slot with the validity bit, type, vector, has-error-code
\* bit and error code it had at the save when the slot was occupied by an
\* event that requires redelivery; otherwise the record carries no pending
\* event and the load leaves the slot as it found it.
C4_SaveRestoreRoundTrip ==
    ( call.op = "svm_load_vmcb_ctxt" /\ ctxt.origin = "saved" /\ call.rc = 0 )
    => IF h_slot.v = 1 /\ hvm_event_needs_reinjection(h_slot.type,
                                                      h_slot.vector)
       THEN SlotFields(vmcb.eventinj) = SlotFields(h_slot)
       ELSE /\ ctxt.pending_event = [ hi |-> 0, lo |-> 0 ]
            /\ ctxt.error_code = 0
            /\ vmcb.eventinj = call.pre

\* C4 witness: the slot held a general-protection fault with a nonzero
\* error code at the save, something else before the load, and the load
\* put the fault back.
C4_Witness ==
    /\ call.op = "svm_load_vmcb_ctxt"
    /\ ctxt.origin = "saved"
    /\ call.rc = 0
    /\ h_slot.v = 1
    /\ h_slot.vector = TRAP_gp_fault
    /\ h_slot.errorcode # 0
    /\ h_slot.ev = 1
    /\ SlotFields(call.pre) # SlotFields(h_slot)
    /\ SlotFields(vmcb.eventinj) = SlotFields(h_slot)

(***************************************************************************)
(* SpecExit: guest entries and the exits of HLT, RDMSR, WRMSR and of a     *)
(* refused VMRUN.                                                          *)
(***************************************************************************)
\* What __get_instruction_length returns: 0 when the bytes at the
\* instruction pointer are not the expected instruction.
InstLens == { 0, 1, 2, MAX_INST_LEN, MAX_INST_LEN + 1 }

\* A general-protection fault left in exitintinfo by an earlier exit.
StaleGp ==
    [ v |-> 1, type |-> X86_EVENTTYPE_HW_EXCEPTION, vector |-> TRAP_gp_fault,
      ev |-> 1, resvd1 |-> 0, errorcode |-> 0 ]

HltExits ==
    { [ Exit("VMEXIT_HLT") EXCEPT !.inst_len = n, !.intack = k[1],
                                  !.blocked = k[2] ] :
        n \in InstLens,
        k \in { << FALSE, FALSE >>, << TRUE, FALSE >>, << TRUE, TRUE >> } }

MsrExits ==
    { [ Exit("VMEXIT_MSR") EXCEPT !.exitinfo1 = w, !.msr = m, !.ok = ok,
                                  !.inst_len = n, !.val = val,
                                  !.lbrv = (m = "MSR_IA32_DEBUGCTLMSR" /\ ok) ] :
        w \in { 0, 1 },
        m \in { "MSR_K8_VM_HSAVE_PA", "MSR_EFER", "MSR_IA32_TSC",
                "MSR_IA32_DEBUGCTLMSR", "MSR_OTHER" },
        ok \in BOOLEAN, n \in InstLens, val \in Vals }

InvalidExits ==
    { [ Exit("VMEXIT_INVALID") EXCEPT !.exitintinfo = e ] :
        e \in { NoEvent, StaleGp } }

ExitGuests ==
    { [ QuietGuest EXCEPT !.eip = ip, !.eflags = f ] :
        ip \in { 0, RipMod - 1 }, f \in { {}, { "TF" }, { "RF" } } }

NextExit ==
    \/ CtxtSwitchTo
    \/ CtxtSwitchFrom
    \/ \E g \in ExitGuests : VmEntry(g)
    \/ VmRunFails
    \/ \E in \in HltExits \cup MsrExits \cup InvalidExits : VmExit(in)
    \/ \E r \in IllegalInstrExits : VmExit(Exit(r))

SpecExit == InitFor({ FALSE }) /\ [][NextExit]_vars

\* The last operation was the handling of an exit with code r.
Handled(r) == call.op = "svm_vmexit_handler" /\ call.in.exit_reason = r

\* C5: the handler of an exit with code VMEXIT_INVALID crashes the domain,
\* leaves the instruction pointer alone and installs no event: the
\* injection slot is what it was, whatever exitintinfo holds.
C5_InvalidExitCrashes ==
    Handled("VMEXIT_INVALID")
    => /\ crashed
       /\ regs.eip = call.eip0
       /\ vmcb.eventinj = call.pre

\* C5 witness: an exit with code VMEXIT_INVALID whose exitintinfo holds a
\* valid event that needs reinjection, the slot holding another.
C5_Witness ==
    /\ Handled("VMEXIT_INVALID")
    /\ call.in.exitintinfo = StaleGp
    /\ vmcb.eventinj # StaleGp
    /\ crashed

\* C7: when the injection slot holds a valid event at the pending-event
\* check of the halt exit, hvm_hlt is not called.
C7_HltPendingStaysAwake ==
    ( Handled("VMEXIT_HLT") /\ vmcb.eventinj.v = 1 )
    => "hvm_hlt" \notin call.ext

\* C7 witness: a halt exit of nonzero length with no interrupt source,
\* whose slot holds a valid event.
C7_Witness ==
    /\ Handled("VMEXIT_HLT")
    /\ call.in.inst_len = 1
    /\ ~call.in.intack
    /\ vmcb.eventinj.v = 1
    /\ regs.eip = (call.eip0 + 1) % RipMod

\* The halt exit found no interrupt source that is not blocked.
NoUnblockedInterrupt == ~( call.in.intack /\ ~call.in.blocked )

\* C8 as stated: every halt exit with no pending injected event and no
\* unblocked interrupt source calls hvm_hlt.
C8_Original ==
    ( /\ Handled("VMEXIT_HLT")
      /\ call.disp.v = 0
      /\ vmcb.eventinj.v = 0
      /\ NoUnblockedInterrupt )
    => "hvm_hlt" \in call.ext

\* C8 as amended: a halt exit whose decoded instruction length is not 0,
\* with no valid event in the injection slot after the advance of the
\* instruction pointer and no unblocked interrupt source, calls hvm_hlt;
\* a halt exit whose decoded length is 0 does not, and neither does one of
\* a single-stepping guest, for which the advance injects a debug
\* exception.
C8_HltIdles ==
    Handled("VMEXIT_HLT")
    => /\ ( /\ call.in.inst_len # 0
            /\ vmcb.eventinj.v = 0
            /\ NoUnblockedInterrupt )
          => "hvm_hlt" \in call.ext
       /\ call.in.inst_len = 0
          => /\ "hvm_hlt" \notin call.ext
             /\ regs.eip = call.eip0
       /\ ( call.in.inst_len \in 1 .. MAX_INST_LEN /\ "TF" \in regs.eflags )
          => /\ vmcb.eventinj.v = 1
             /\ vmcb.eventinj.vector = TRAP_debug
             /\ "hvm_hlt" \notin call.ext

\* C8 witness: a halt exit with a blocked interrupt source, nothing in the
\* slot and a nonzero length idled the vcpu.
C8_Witness ==
    /\ Handled("VMEXIT_HLT")
    /\ call.in.inst_len = 2
    /\ call.in.intack /\ call.in.blocked
    /\ vmcb.eventinj.v = 0
    /\ "hvm_hlt" \in call.ext

\* The last operation was the handling of a WRMSR exit.
HandledWrmsr == Handled("VMEXIT_MSR") /\ call.in.exitinfo1 # 0

\* C9: the handling of a WRMSR exit whose target is MSR_K8_VM_HSAVE_PA
\* leaves a general-protection fault with error code 0 in the injection
\* slot, has the intercept return X86EMUL_EXCEPTION and leaves the
\* instruction pointer alone, whatever the value written and the decoded
\* length.
C9_HsavePaWriteFaults ==
    ( HandledWrmsr /\ call.in.msr = "MSR_K8_VM_HSAVE_PA" )
    => /\ vmcb.eventinj = StaleGp
       /\ call.rc = X86EMUL_EXCEPTION
       /\ regs.eip = call.eip0

\* C9 witness: a write of a nonzero value to MSR_K8_VM_HSAVE_PA, with a
\* decoded length that would have moved the instruction pointer.
C9_Witness ==
    /\ HandledWrmsr
    /\ call.in.msr = "MSR_K8_VM_HSAVE_PA"
    /\ call.in.val # 0
    /\ call.in.inst_len = 2
    /\ call.pre.v = 0

\* C10 as stated: the MSR exit advances the instruction pointer past the
\* instruction if and only if the intercept returned X86EMUL_OKAY.
C10_Original ==
    Handled("VMEXIT_MSR")
    => /\ call.rc = X86EMUL_OKAY
          => /\ regs.eip = (call.eip0 + call.in.inst_len) % RipMod
             /\ regs.eip # call.eip0
       /\ call.rc # X86EMUL_OKAY => regs.eip = call.eip0

\* C10 as amended: the MSR exit advances the instruction pointer by the
\* decoded length if and only if the intercept returned X86EMUL_OKAY and
\* the decoded length is in 1 .. 15; after a successful intercept with a
\* decoded length of 0 or above 15 the domain is crashed and the
\* instruction pointer unchanged; after a fault the instruction pointer is
\* unchanged.
C10_MsrAdvance ==
    Handled("VMEXIT_MSR")
    => /\ ( call.rc = X86EMUL_OKAY /\ call.in.inst_len \in 1 .. MAX_INST_LEN )
          => /\ regs.eip = (call.eip0 + call.in.inst_len) % RipMod
             /\ regs.eip # call.eip0
       /\ ( call.rc = X86EMUL_OKAY /\ call.in.inst_len \notin 1 .. MAX_INST_LEN )
          => /\ regs.eip = call.eip0
             /\ crashed
       /\ call.rc # X86EMUL_OKAY
          => /\ regs.eip = call.eip0
             /\ call.rc = X86EMUL_EXCEPTION
             /\ vmcb.eventinj.v = 1

\* C10 witness: a read of an MSR outside the tables that the hardware
\* refuses, at the top of the address range, with a nonzero decoded length.
C10_Witness ==
    /\ Handled("VMEXIT_MSR")
    /\ call.in.exitinfo1 = 0
    /\ call.in.msr = "MSR_OTHER"
    /\ call.rc = X86EMUL_EXCEPTION
    /\ call.in.inst_len = MAX_INST_LEN
    /\ regs.eip = RipMod - 1

(***************************************************************************)
(* SpecDr: lazy debug registers across world switches.                     *)
(***************************************************************************)
\* Guests that, when their debug-register accesses are not intercepted,
\* load a breakpoint or disable them, and that may single-step.
DrGuests ==
    { [ QuietGuest EXCEPT !.eflags = f, !.dr = d, !.dr7 = d7 ] :
        f \in { {}, { "TF" } },
        d \in { HostDr, << MaxDr, 0, 0, 0 >> },
        d7 \in { {}, { "L0" }, { "GD" } } }

NextDr ==
    \/ CtxtSwitchTo
    \/ CtxtSwitchFrom
    \/ \E d \in { HostDr, << 0, 0, 0, MaxDr >> } : OtherUsesCore(d)
    \/ \E g \in DrGuests : VmEntry(g)
    \/ \E r \in DrExits \cup { "VMEXIT_INTR" } : VmExit(Exit(r))
    \/ \E t \in { TRAP_debug, TRAP_gp_fault } :
            InjectException(t, HVM_DELIVER_NO_ERROR_CODE, 0)

SpecDr == InitFor({ FALSE }) /\ [][NextDr]_vars

\* C6: the debug-register dirty flag is clear whenever the vcpu is not the
\* one running on the core: from the return of svm_ctxt_switch_from to the
\* next svm_ctxt_switch_to.
C6_DrCleanWhenDescheduled == mode = "off" => ~flag_dr_dirty

\* C6 witness: svm_ctxt_switch_from returned for a vcpu whose guest had
\* loaded a breakpoint into the debug registers, which were saved.
C6_Witness ==
    /\ mode = "off"
    /\ call.op = "svm_ctxt_switch_from"
    /\ debugreg.a = << MaxDr, 0, 0, 0 >>
    /\ "L0" \in debugreg.dr7
    /\ vmcb.dr_intercepts = DrInterceptAll

\* The debug-register state that svm_restore_dr may write.
DrState(st) ==
    << st.flag_dr_dirty, st.vmcb.dr_intercepts, st.hw_dr, st.vmcb.dr6,
       st.vmcb.dr7 >>

\* C11: when the canonical DR7 has no breakpoint-enable bit set,
\* svm_restore_dr changes nothing: neither the dirty flag, nor the
\* debug-register interception bitmap, nor the hardware debug registers
\* 0-3, nor the control block's DR6 and DR7.  Stated of svm_restore_dr
\* applied in any reachable state, and of the svm_ctxt_switch_to steps
\* that call it.
C11_RestoreDrUnarmedNoop ==
    [][ debugreg.dr7 \cap DR7_ACTIVE_MASK = {}
        => /\ DrState(svm_restore_dr(Cur)) = DrState(Cur)
           /\ call'.op = "svm_ctxt_switch_to"
              => << flag_dr_dirty', vmcb'.dr_intercepts, hw_dr', vmcb'.dr6,
                    vmcb'.dr7 >> = DrState(Cur) ]_vars

\* C11 witness: svm_ctxt_switch_to ran with no breakpoint enabled in the
\* canonical DR7 while the core held other debug registers than the
\* vcpu's, and left them there.
C11_Witness ==
    /\ call.op = "svm_ctxt_switch_to"
    /\ debugreg.dr7 = { "GD" }
    /\ hw_dr # debugreg.a
    /\ ~flag_dr_dirty
    /\ vmcb.dr_intercepts = DrInterceptAll

\* C12: when the canonical DR7 has a breakpoint-enable bit set,
\* svm_restore_dr returns with the dirty flag set and debug-register
\* interception disabled, and a second call in a row changes nothing.
\* Stated of svm_restore_dr applied in any reachable state, and of the
\* state svm_ctxt_switch_to leaves.
C12_RestoreDrArmedIdempotent ==
    debugreg.dr7 \cap DR7_ACTIVE_MASK # {}
    => LET once == svm_restore_dr(Cur)
       IN  /\ once.flag_dr_dirty
           /\ once.vmcb.dr_intercepts = {}
           /\ svm_restore_dr(once) = once
           /\ call.op = "svm_ctxt_switch_to"
              => /\ flag_dr_dirty
                 /\ vmcb.dr_intercepts = {}
                 /\ hw_dr = debugreg.a
                 /\ vmcb.dr7 = debugreg.dr7

\* C12 witness: svm_ctxt_switch_to restored the breakpoint the guest had
\* loaded, after the core had held other debug registers.
C12_Witness ==
    /\ call.op = "svm_ctxt_switch_to"
    /\ "L0" \in debugreg.dr7
    /\ flag_dr_dirty
    /\ debugreg.a = << MaxDr, 0, 0, 0 >>
    /\ hw_dr = debugreg.a

(***************************************************************************)
(* SpecCpuid: CPUID exits.                                                 *)
(***************************************************************************)
CpuidLeaves ==
    { "0x00000000", "0x00000001", "0x80000001", "0x80000007", "0x80000008",
      "0x8000000A" }

\* What hvm_cpuid returns in a register: nothing, every bit, or every
\* second bit.
RawRegs == { {}, AllBits, { b \in AllBits : b % 2 = 1 } }

CpuidExits ==
    { [ Exit("VMEXIT_CPUID") EXCEPT
          !.inst_len = n, !.leaf = l, !.apic_off = k[1], !.pae = k[2],
          !.raw = [ eax |-> x, ebx |-> x, ecx |-> c, edx |-> d ] ] :
        n \in { 0, 2 }, l \in CpuidLeaves,
        k \in { << FALSE, TRUE >>, << TRUE, FALSE >> },
        x \in { {}, AllBits }, c \in RawRegs, d \in RawRegs }

NextCpuid ==
    \/ CtxtSwitchTo
    \/ CtxtSwitchFrom
    \/ VmEntry(QuietGuest)
    \/ \E in \in CpuidExits : VmExit(in)

SpecCpuid == InitFor({ FALSE }) /\ [][NextCpuid]_vars

\* C13: after a CPUID exit for leaf 0x80000001, every bit of ECX and of
\* EDX that is not in the whitelist is 0 in the guest's registers, whatever
\* hvm_cpuid returned: ECX is the raw value restricted to its whitelist,
\* EDX is within its whitelist and has PSE36 clear.
C13_ExtLeafWhitelisted ==
    ( /\ Handled("VMEXIT_CPUID")
      /\ call.in.leaf = "0x80000001"
      /\ call.in.inst_len # 0 )
    => /\ regs.ecx \cap (AllBits \ ExtFeatureWhitelistEcx) = {}
       /\ regs.edx \cap (AllBits \ ExtFeatureWhitelistEdx) = {}
       /\ regs.ecx = call.in.raw.ecx \cap ExtFeatureWhitelistEcx
       /\ regs.edx \subseteq call.in.raw.edx
       /\ bitmaskof(X86_FEATURE("PSE36")) \notin regs.edx

\* C13 witness: hvm_cpuid returned every bit set for leaf 0x80000001, and
\* the guest sees NX and LAHF_LM.
C13_Witness ==
    /\ Handled("VMEXIT_CPUID")
    /\ call.in.leaf = "0x80000001"
    /\ call.in.raw.ecx = AllBits
    /\ call.in.raw.edx = AllBits
    /\ bitmaskof(X86_FEATURE("NX")) \in regs.edx
    /\ bitmaskof(X86_FEATURE("LAHF_LM")) \in regs.ecx
    /\ regs.eip = 2

\* The exits of the privileged virtualization instructions.
SvmInstrExits ==
    { "VMEXIT_VMRUN", "VMEXIT_VMLOAD", "VMEXIT_VMSAVE", "VMEXIT_STGI",
      "VMEXIT_CLGI", "VMEXIT_SKINIT" }

\* An invalid-opcode exception, which has no error code.
InvalidOpEvent ==
    [ v |-> 1, type |-> X86_EVENTTYPE_HW_EXCEPTION, vector |-> TRAP_invalid_op,
      ev |-> 0, resvd1 |-> 0, errorcode |-> HVM_DELIVER_NO_ERROR_CODE ]

\* C14: the handler of an exit caused by VMRUN, VMLOAD, VMSAVE, STGI, CLGI
\* or SKINIT leaves an invalid-opcode exception in the injection slot and
\* crashes nothing: neither domain_crash nor hvm_triple_fault is called,
\* and the instruction pointer stays on the instruction.
C14_SvmInstrInjectsInvalidOp ==
    ( call.op = "svm_vmexit_handler" /\ call.in.exit_reason \in SvmInstrExits )
    => /\ vmcb.eventinj = InvalidOpEvent
       /\ ~crashed
       /\ ~triple_fault
       /\ regs.eip = call.eip0

\* C14 witness: a VMRUN exit of a single-stepping guest, the slot empty
\* before it.
C14_Witness ==
    /\ Handled("VMEXIT_VMRUN")
    /\ call.pre.v = 0
    /\ "TF" \in regs.eflags
    /\ vmcb.eventinj.vector = TRAP_invalid_op
    /\ vmcb.eventinj.v = 1

\* C15 as stated: after svm_update_guest_cr(v, 4) the control block's CR4
\* is the canonical CR4 ANDed with the host mask, and its PAE bit is clear
\* under hardware-assisted paging.
C15_Original ==
    call.op = "svm_update_guest_cr4"
    => /\ vmcb.cr4 = guest_cr.cr4 \cap HVM_CR4_HOST_MASK
       /\ hap => "PAE" \notin vmcb.cr4

\* C15 as amended: the control block's CR4 is the canonical CR4 ORed with
\* the host mask, from which PAE is removed under hardware-assisted
\* paging: every canonical bit and every host bit is set, and under
\* hardware-assisted paging PAE is set exactly when the canonical CR4 has
\* it.
C15_Cr4IsHostMaskOrGuest ==
    /\ vmcb.cr4 = ( IF hap THEN HVM_CR4_HOST_MASK \ { "PAE" }
                    ELSE HVM_CR4_HOST_MASK ) \cup guest_cr.cr4
    /\ hap => ( "PAE" \in vmcb.cr4 <=> "PAE" \in guest_cr.cr4 )
    /\ ~hap => HVM_CR4_HOST_MASK \subseteq vmcb.cr4

\* C15 witness: under hardware-assisted paging the canonical CR4 was set
\* to PAE and PGE.
C15_Witness ==
    /\ call.op = "svm_update_guest_cr4"
    /\ hap
    /\ guest_cr.cr4 = { "PAE", "PGE" }
    /\ "PAE" \in vmcb.cr4

\* C16 as stated: after svm_update_guest_efer the control block's EFER has
\* SVME set and LME clear.
C16_Original ==
    call.op = "svm_update_guest_efer"
    => /\ "SVME" \in vmcb.efer
       /\ "LME" \notin vmcb.efer

\* C16 as amended: the control block's EFER is the canonical EFER with SVME
\* set and with LME replaced by a copy of LMA: LME is clear when the
\* canonical value has LMA clear and set when it has LMA set.
C16_EferSvmeOnLmeFollowsLma ==
    /\ "SVME" \in vmcb.efer
    /\ "LME" \in vmcb.efer <=> "LMA" \in guest_efer
    /\ vmcb.efer \ { "SVME", "LME" } = guest_efer \ { "SVME", "LME" }

\* C16 witness: the canonical EFER was set to LME and LMA, a guest in long
\* mode.
C16_Witness ==
    /\ call.op = "svm_update_guest_efer"
    /\ guest_efer = { "LME", "LMA" }
    /\ "LME" \in vmcb.efer

\* The injection slot held, when the record was saved, an event that must
\* be redelivered.
SavedNeedsRedelivery ==
    h_slot.v = 1 /\ hvm_event_needs_reinjection(h_slot.type, h_slot.vector)

\* C17 as stated: svm_vmcb_save snapshots an event that must be
\* redelivered into the record and clears the slot's validity bit, and
\* leaves the slot unchanged when the event need not be redelivered.
C17_Original ==
    call.op = "svm_save_vmcb_ctxt"
    => IF SavedNeedsRedelivery
       THEN /\ ctxt.pending_event = EventinjLow32(h_slot)
            /\ ctxt.error_code = h_slot.errorcode
            /\ vmcb.eventinj.v = 0
       ELSE vmcb.eventinj = h_slot

\* C17 as amended: svm_vmcb_save snapshots an event that must be
\* redelivered into the record and writes no pending event into the record
\* otherwise; in both cases it leaves the injection slot, validity bit
\* included, exactly as it was.
C17_SaveLeavesSlot ==
    call.op = "svm_save_vmcb_ctxt"
    => /\ vmcb.eventinj = h_slot
       /\ IF SavedNeedsRedelivery
          THEN /\ ctxt.pending_event = EventinjLow32(h_slot)
               /\ pending_valid(ctxt.pending_event) = 1
               /\ ctxt.error_code = h_slot.errorcode
          ELSE /\ ctxt.pending_event = [ hi |-> 0, lo |-> 0 ]
               /\ ctxt.error_code = 0

\* C17 witness: the record was saved while the slot held a
\* general-protection fault, which is still in the slot.
C17_Witness ==
    /\ call.op = "svm_save_vmcb_ctxt"
    /\ SavedNeedsRedelivery
    /\ h_slot.vector = TRAP_gp_fault
    /\ vmcb.eventinj.v = 1
    /\ pending_vector(ctxt.pending_event) = TRAP_gp_fault

(***************************************************************************)
(* SpecReflect: exits taken while the guest was being delivered an event.  *)
(***************************************************************************)
\* The exits that the delivery of an event can end in: a page fault that
\* the shadow code sees, a nested page fault, a task switch.
DeliveryExits(h) ==
    { "VMEXIT_TASK_SWITCH", IF h THEN "VMEXIT_NPF" ELSE "VMEXIT_EXCEPTION_PF" }

\* What exitintinfo holds: nothing, an external interrupt, an NMI, a
\* general-protection fault, a page fault, a breakpoint exception, a
\* software interrupt.
ReflectedEvents ==
    { NoEvent,
      [ NoEvent EXCEPT !.v = 1, !.type = X86_EVENTTYPE_EXT_INTR,
                       !.vector = 48 ],
      [ NoEvent EXCEPT !.v = 1, !.type = X86_EVENTTYPE_NMI, !.vector = 2 ],
      StaleGp,
      [ StaleGp EXCEPT !.vector = TRAP_page_fault, !.errorcode = MaxVal ],
      [ NoEvent EXCEPT !.v = 1, !.type = X86_EVENTTYPE_HW_EXCEPTION,
                       !.vector = TRAP_int3 ],
      [ NoEvent EXCEPT !.v = 1, !.type = X86_EVENTTYPE_SW_INTERRUPT,
                       !.vector = 128 ] }

ReflectExits(h) ==
    { [ Exit(r) EXCEPT !.exitintinfo = e, !.ok = ok, !.mmio = mmio,
                       !.exitinfo1 = a[1], !.exitinfo2 = a[2] ] :
        r \in DeliveryExits(h), e \in ReflectedEvents, ok \in BOOLEAN,
        mmio \in BOOLEAN, a \in { << 0, 0 >>, << MaxVal, MaxVal >> } }

NextReflect ==
    \/ CtxtSwitchTo
    \/ CtxtSwitchFrom
    \/ VmEntry(QuietGuest)
    \/ \E in \in ReflectExits(hap) : VmExit(in)

SpecReflect == Init /\ [][NextReflect]_vars

\* The last operation handled an exit other than VMEXIT_INVALID whose
\* exitintinfo held a valid event that requires redelivery.
HandledReflected ==
    /\ call.op = "svm_vmexit_handler"
    /\ call.in.exit_reason # "VMEXIT_INVALID"
    /\ call.in.exitintinfo.v = 1
    /\ hvm_event_needs_reinjection(call.in.exitintinfo.type,
                                   call.in.exitintinfo.vector)

\* The vector of the exception that the exit-specific handler of the last
\* exit injected, or -1 when it injected none.
InjectedBy(in) ==
    CASE in.exit_reason = "VMEXIT_EXCEPTION_PF" /\ ~in.ok -> TRAP_page_fault
      [] in.exit_reason = "VMEXIT_NPF" /\ in.mmio /\ ~in.ok -> TRAP_gp_fault
      [] OTHER -> -1

\* C18 as stated: when the handler returns, the injection slot holds the
\* reflected event or a hardware exception obtained from it by the
\* escalation rule.
C18_Original ==
    HandledReflected
    => \/ vmcb.eventinj = call.in.exitintinfo
       \/ /\ IsHwException(call.in.exitintinfo)
          /\ IsHwException(vmcb.eventinj)
          /\ \E t \in Vectors :
                vmcb.eventinj.vector =
                    hvm_combine_hw_exceptions(call.in.exitintinfo.vector, t)

\* C18 as amended: the reflected event is in the injection slot when the
\* exit is dispatched.  When the handler returns the slot still holds it
\* if the exit-specific handler injected no exception; if it injected one,
\* the slot holds the combination under the escalation rule when the
\* reflected event is a hardware exception, and the injected exception
\* alone, the reflected event being overwritten, when the reflected event
\* is an external interrupt or an NMI.
C18_ReflectedThenInjected ==
    HandledReflected
    => LET e == call.in.exitintinfo
           t == InjectedBy(call.in)
       IN  /\ call.disp = e
           /\ t = -1 => vmcb.eventinj = e
           /\ t # -1
              => /\ IsHwException(vmcb.eventinj)
                 /\ vmcb.eventinj.vector =
                        IF IsHwException(e)
                        THEN hvm_combine_hw_exceptions(e.vector, t)
                        ELSE t

\* C18 witness: a shadow page fault that the guest must handle, taken
\* during the delivery of an external interrupt: the slot holds the page
\* fault.
C18_Witness ==
    /\ HandledReflected
    /\ call.in.exit_reason = "VMEXIT_EXCEPTION_PF"
    /\ call.in.exitintinfo.type = X86_EVENTTYPE_EXT_INTR
    /\ call.disp.vector = 48
    /\ vmcb.eventinj.vector = TRAP_page_fault
    /\ vmcb.eventinj.errorcode = MaxVal

\* C19 as stated: every svm_inject_exception call for the page-fault
\* vector leaves the canonical CR2 and the control block's CR2 equal to
\* the fault address supplied, a pending hardware exception or not.
C19_Original ==
    ( call.op = "svm_inject_exception" /\ call.in.trapnr = TRAP_page_fault )
    => /\ guest_cr.cr2 = call.in.val
       /\ vmcb.cr2 = call.in.val

\* C19 as amended: the fault address is stored in both registers exactly
\* when the vector left in the slot, after the combination with a pending
\* hardware exception, is the page fault.  A page fault that the
\* combination escalates to a double fault, and any other vector, leave
\* both registers as they were.
C19_Cr2FollowsInjectedPageFault ==
    /\ []( ( /\ call.op = "svm_inject_exception"
             /\ vmcb.eventinj.vector = TRAP_page_fault )
           => /\ call.in.trapnr = TRAP_page_fault
              /\ guest_cr.cr2 = call.in.val
              /\ vmcb.cr2 = call.in.val )
    /\ [][ ( /\ call'.op = "svm_inject_exception"
             /\ vmcb'.eventinj.vector # TRAP_page_fault )
           => /\ guest_cr'.cr2 = guest_cr.cr2
              /\ vmcb'.cr2 = vmcb.cr2
              /\ call'.in.trapnr = TRAP_page_fault
                 => /\ vmcb'.eventinj.vector = TRAP_double_fault
                    /\ IsHwException(vmcb.eventinj) ]_vars

\* C19 witness: a page fault with a nonzero address was injected onto a
\* pending general-protection fault and stored its address.
C19_Witness ==
    /\ call.op = "svm_inject_exception"
    /\ call.in.trapnr = TRAP_page_fault
    /\ IsHwException(call.pre)
    /\ call.pre.vector = TRAP_gp_fault
    /\ call.in.val = MaxVal
    /\ vmcb.eventinj.vector = TRAP_page_fault
    /\ guest_cr.cr2 = MaxVal
    /\ vmcb.cr2 = MaxVal

\* The last operation handled an access to an MSR outside every table.
HandledOtherMsr == Handled("VMEXIT_MSR") /\ call.in.msr = "MSR_OTHER"

\* A general-protection fault is in the injection slot.
GpInSlot == vmcb.eventinj.v = 1 /\ vmcb.eventinj.vector = TRAP_gp_fault

NextBoot ==
    \E core \in Cpus, s \in BOOLEAN, b \in BOOLEAN, h \in BOOLEAN,
       v \in BOOLEAN, x \in BOOLEAN, f \in { {}, { "NPT" } } :
        StartSvm(core, [ svme |-> s, bios_disabled |-> b, hsa_ok |-> h,
                         vmcb_ok |-> v, ext_leaf |-> x, features |-> f ])

\* Bring-up starts from the machine before it.  No domain exists yet: the
\* vcpu's fields are at their construction values and bring-up does not
\* touch them.
SpecBoot == InitVcpu({ FALSE }, NoBoot) /\ [][NextBoot]_vars

\* The cores in the sequence q.
CoresOf(q) == { q[i] : i \in 1 .. Len(q) }

\* C21 as stated: the function table is registered by the first core whose
\* bring-up succeeds, exactly once.
C21_Original ==
    boot.succeeded # << >> => boot.hvm_enable = << Head(boot.succeeded) >>

\* C21 as amended: the function table is registered by core 0 and by no
\* other core, when core 0's bring-up succeeds, whatever cores succeeded
\* before it; it is registered at most once, and never when core 0's
\* bring-up fails.
C21_CoreZeroRegisters ==
    /\ Len(boot.hvm_enable) <= 1
    /\ CoresOf(boot.hvm_enable) \subseteq { 0 }
    /\ boot.hvm_enable = << 0 >> <=> 0 \in CoresOf(boot.succeeded)

\* C21 witness: core 1 came up before core 0, and core 0 registered the
\* table when it came up.
C21_Witness ==
    /\ call.op = "start_svm"
    /\ call.in.core = 0
    /\ call.rc = 1
    /\ Head(boot.succeeded) = 1
    /\ boot.hvm_enable = << 0 >>

(***************************************************************************)
(* SpecResume: the vcpu is scheduled in and out, on any core, and resumed. *)
(* Every entry into the guest follows svm_do_resume or the return of       *)
(* svm_vmexit_handler.                                                     *)
(***************************************************************************)
NextResume ==
    \/ \E c \in Cpus : Migrate(c)
    \/ CtxtSwitchTo
    \/ CtxtSwitchFrom
    \/ \E g \in { QuietGuest, [ QuietGuest EXCEPT !.tpr = 1 ] } : DoResume(g)
    \/ Reenter(QuietGuest)
    \/ \E r \in { "VMEXIT_INTR", "VMEXIT_EXCEPTION_NM" } : VmExit(Exit(r))
    \/ \E b \in BOOLEAN : SetDebugger(b)

SpecResume == InitFor({ FALSE }) /\ [][NextResume]_vars

\* The collaborators svm_do_resume calls on a migration.
MigrationCalls == { "hvm_migrate_timers", "svm_asid_init_vcpu" }

\* C22: svm_do_resume requests a new address-space tag and migrates the
\* timers if and only if the vcpu's last-core marker differs from the
\* current core, and sets the marker to the current core; so a resume that
\* follows another on the same core requests none, and the guest never
\* runs on a core other than the one of the marker.
C22_AsidRequestedOnMigration ==
    /\ [][ call'.op = "svm_do_resume"
           => /\ launch_core # cpu => MigrationCalls \subseteq call'.ext
              /\ launch_core = cpu => MigrationCalls \cap call'.ext = {}
              /\ launch_core' = cpu
              /\ cpu' = cpu ]_vars
    /\ [](mode = "guest" => launch_core = cpu)

\* C22 witness: the vcpu had run on one core and was resumed on another.
C22_Witness ==
    /\ call.op = "svm_do_resume"
    /\ call.launch0 \in Cpus
    /\ call.launch0 # cpu
    /\ launch_core = cpu
    /\ "svm_asid_init_vcpu" \in call.ext
    /\ mode = "guest"

\* The debug and breakpoint exceptions.
DebugTraps == { TRAP_debug, TRAP_int3 }

\* C24: after every svm_do_resume the debug-state latch equals the
\* domain's debugger-attached flag, and the debug and breakpoint exceptions
\* are both intercepted when a debugger is attached and neither is when
\* none is; a resume that finds the latch equal to the flag leaves the
\* exception-intercept bitmap as it was.
C24_DebugInterceptsFollowLatch ==
    [][ call'.op = "svm_do_resume"
        => /\ debug_state_latch' = debugger_attached
           /\ debugger_attached
              => DebugTraps \subseteq vmcb'.exception_intercepts
           /\ ~debugger_attached
              => DebugTraps \cap vmcb'.exception_intercepts = {}
           /\ debug_state_latch = debugger_attached
              => vmcb'.exception_intercepts = vmcb.exception_intercepts ]_vars

\* C24 witness: a debugger attached to the domain while the vcpu ran on
\* core 1, and the next resume, on the same core, switched the interception
\* of both exceptions on.
C24_Witness ==
    /\ call.op = "svm_do_resume"
    /\ debugger_attached
    /\ debug_state_latch
    /\ DebugTraps \subseteq vmcb.exception_intercepts
    /\ call.launch0 = 1
    /\ launch_core = 1

(***************************************************************************)
(* SpecHcall: guest entries and hypercall exits.                           *)
(***************************************************************************)
HcallExits ==
    { [ Exit("VMEXIT_VMMCALL") EXCEPT !.inst_len = n, !.hcall = h ] :
        n \in InstLens, h \in { "completed", "preempted", "invalidate" } }

NextHcall ==
    \/ CtxtSwitchTo
    \/ CtxtSwitchFrom
    \/ \E g \in ExitGuests : VmEntry(g)
    \/ \E in \in HcallExits : VmExit(in)

SpecHcall == InitFor({ FALSE }) /\ [][NextHcall]_vars

\* The instruction pointer was advanced by the decoded length.
Advanced ==
    /\ regs.eip = (call.eip0 + call.in.inst_len) % RipMod
    /\ regs.eip # call.eip0

\* C23 as stated: on a hypercall exit the instruction pointer is advanced
\* past the instruction if and only if the hypercall was not preempted,
\* and the invalidation request is sent only when the call completed with
\* the state-invalidated result.
C23_Original ==
    Handled("VMEXIT_VMMCALL")
    => /\ Advanced <=> call.in.hcall # "preempted"
       /\ call.in.hcall = "preempted" => regs.eip = call.eip0
       /\ "send_invalidate_req" \in call.ext => call.in.hcall = "invalidate"

\* C23 as amended: on a hypercall exit whose decoded length is 0 the
\* hypercall is not made and the instruction pointer is unchanged.
\* Otherwise the hypercall is made; a preempted one leaves the instruction
\* pointer unchanged and sends no invalidation request; one that was not
\* preempted advances the instruction pointer by the decoded length when
\* that is in 1 .. 15 and crashes the domain, leaving the pointer, when it
\* is above 15, and in both cases the invalidation request is sent if and
\* only if the result is state-invalidated.
C23_HypercallAdvance ==
    Handled("VMEXIT_VMMCALL")
    => /\ call.in.inst_len = 0
          => /\ call.ext = {}
             /\ regs.eip = call.eip0
             /\ ~crashed
       /\ call.in.inst_len # 0
          => /\ "hvm_do_hypercall" \in call.ext
             /\ call.in.hcall = "preempted"
                => /\ regs.eip = call.eip0
                   /\ "send_invalidate_req" \notin call.ext
                   /\ ~crashed
             /\ call.in.hcall # "preempted"
                => /\ call.in.inst_len \in 1 .. MAX_INST_LEN => Advanced
                   /\ call.in.inst_len > MAX_INST_LEN
                      => regs.eip = call.eip0 /\ crashed
                   /\ "send_invalidate_req" \in call.ext
                      <=> call.in.hcall = "invalidate"

\* C23 witness: a preempted hypercall of a single-stepping guest at the
\* top of the address range left the instruction pointer where it was.
C23_Witness ==
    /\ Handled("VMEXIT_VMMCALL")
    /\ call.in.hcall = "preempted"
    /\ call.in.inst_len = 2
    /\ regs.eip = RipMod - 1
    /\ "TF" \in regs.eflags
    /\ vmcb.eventinj.v = 0

\* C25: over every sequence of paired svm_ctxt_switch_to and
\* svm_ctxt_switch_from calls, the core's active control block is the
\* guest's from a switch-to to the matching switch-from and the root block
\* otherwise, and the IST fields of the double-fault, NMI and machine-check
\* vectors hold the host's assignments exactly when the root block is
\* active; while the guest's block is active they are cleared.
C25_ActiveBlockAndIstPaired ==
    /\ active_vmcb = "guest" <=> mode # "off"
    /\ active_vmcb = "root" <=> mode = "off"
    /\ ist = HostIst <=> active_vmcb = "root"
    /\ ist = NoIst <=> active_vmcb = "guest"

\* C25 witness: the vcpu ran on a core, was switched out, and the core is
\* back on the root block with the host's IST assignments.
C25_Witness ==
    /\ call.op = "svm_ctxt_switch_from"
    /\ call.launch0 \in Cpus
    /\ mode = "off"
    /\ active_vmcb = "root"
    /\ ist = HostIst

\* C26: after svm_update_guest_cr(v, 0) with the task-switched bit clear
\* in the canonical CR0, the control block's CR0 has the bit set if and
\* only if the vcpu is not the one executing on the core; with the bit set
\* in the canonical CR0, the control block's bit is set.
C26_Cr0TsForcedWhenNotCurrent ==
    call.op = "svm_update_guest_cr0"
    => /\ "TS" \notin guest_cr.cr0 => ( "TS" \in vmcb.cr0 <=> mode = "off" )
       /\ "TS" \in guest_cr.cr0 => "TS" \in vmcb.cr0

\* C26 witness: the running vcpu's CR0 was updated with the bit clear
\* while the control block had it set: the FPU was set up and the bit came
\* off.
C26_Witness ==
    /\ call.op = "svm_update_guest_cr0"
    /\ mode = "host"
    /\ "TS" \notin guest_cr.cr0
    /\ "TS" \notin vmcb.cr0
    /\ "setup_fpu" \in call.ext

\* In st the dirty flag is set with no debug-register access intercepted,
\* or clear with all of them intercepted.
DrConsistent(st) ==
    /\ st.flag_dr_dirty <=> st.vmcb.dr_intercepts = {}
    /\ ~st.flag_dr_dirty <=> st.vmcb.dr_intercepts = DrInterceptAll

\* C27: in every reachable state of a vcpu the debug-register dirty flag
\* is set if and only if the interception of debug-register accesses is
\* fully disabled (and clear if and only if all of them are intercepted),
\* and svm_save_dr, svm_restore_dr, svm_dr_access and the injection of a
\* debug exception, applied in that state, preserve this.
C27_DrFlagMatchesIntercepts ==
    /\ DrConsistent(Cur)
    /\ DrConsistent(svm_save_dr(Cur))
    /\ DrConsistent(svm_restore_dr(Cur))
    /\ DrConsistent(svm_dr_access(Cur))
    /\ DrConsistent(svm_inject_exception(Cur, TRAP_debug,
                                         HVM_DELIVER_NO_ERROR_CODE, 0))

\* C27 witness: a debug exception injected into a single-stepping guest
\* that had no breakpoint enabled loaded the debug registers, and the
\* world switch that followed saved them.
C27_Witness ==
    /\ call.op = "svm_ctxt_switch_from"
    /\ "BS" \in debugreg.dr6
    /\ debugreg.dr7 \cap DR7_ACTIVE_MASK = {}
    /\ ~flag_dr_dirty
    /\ vmcb.dr_intercepts = DrInterceptAll

(***************************************************************************)
(* SpecFpu: lazy FPU switching.  The running vcpu updates its CR0, takes   *)
(* no-device exits and is switched in and out; while it is descheduled its *)
(* CR0 is updated remotely, by the load of a record saved earlier.         *)
(***************************************************************************)
\* The running vcpu sets its CR0 to val (hvm_set_cr0 on current).
SetCr0(val) == mode = "host" /\ UpdateGuestCr0(val)

NextFpu ==
    \/ \E val \in SUBSET { "TS", "PG" } : SetCr0(val \cup { "ET" })
    \/ CtxtSwitchTo
    \/ CtxtSwitchFrom
    \/ VmEntry(QuietGuest)
    \/ \E r \in { "VMEXIT_EXCEPTION_NM", "VMEXIT_INTR" } : VmExit(Exit(r))
    \/ SaveVmcbCtxt
    \/ \E cr3_ok \in BOOLEAN : LoadVmcbCtxt(cr3_ok)

SpecFpu == Init /\ [][NextFpu]_vars

\* C28: in every state reachable by CR0 updates of the running vcpu,
\* remote updates while it is descheduled (state restore), no-device exits
\* and world switches, whenever the control block's CR0 has the
\* task-switched bit set while the canonical CR0 has it clear, the
\* no-device exception is intercepted.
C28_Original ==
    ( "TS" \in vmcb.cr0 /\ "TS" \notin guest_cr.cr0 )
    => TRAP_no_device \in vmcb.exception_intercepts

(***************************************************************************)
(* SpecLoad: the save record.  The vcpu is switched in and out and runs;   *)
(* the guest writes its SYSENTER and SYSCALL MSRs, its control registers   *)
(* and EFER are updated; while it is descheduled its record is saved, and  *)
(* that record or one that came from elsewhere is loaded.                  *)
(***************************************************************************)
\* The values the guest writes to its SYSENTER MSRs and to the shadow GS
\* base and the SYSCALL MSRs.
GuestMsrs ==
    [ sysenter |-> << 11, 12, 13 >>, syscall |-> << 14, 15, 16, 17, 18 >> ]

\* The records from elsewhere: those without a pending event and those
\* with a pending event of the type 1, which the load refuses.
LoadCtxts ==
    { c \in ForeignCtxts :
        /\ pending_reserved(c.pending_event) = 0
        /\ \/ pending_valid(c.pending_event) = 0
              /\ pending_type(c.pending_event) = 0
           \/ pending_valid(c.pending_event) = 1
              /\ pending_type(c.pending_event) = 1 }

NextLoad ==
    \/ UpdateGuestCr0({ "ET", "TS" })
    \/ UpdateGuestEfer({ "LME" })
    \/ CtxtSwitchTo
    \/ CtxtSwitchFrom
    \/ VmEntry(QuietGuest)
    \/ GuestSetMsrs(GuestMsrs.sysenter, GuestMsrs.syscall)
    \/ VmExit(Exit("VMEXIT_INTR"))
    \/ SaveVmcbCtxt
    \/ \E c \in LoadCtxts : ReceiveCtxt(c)
    \/ \E cr3_ok \in BOOLEAN : LoadVmcbCtxt(cr3_ok)

SpecLoad == Init /\ [][NextLoad]_vars

\* C29 as stated: whenever svm_load_vmcb_ctxt returns an error, no field of
\* the control block or of the canonical state (EFER, the SYSCALL MSRs and
\* the shadow GS base included) differs from its value before the call,
\* and the guest time is not set.
C29_Original ==
    [][ ( call'.op = "svm_load_vmcb_ctxt" /\ call'.rc # 0 )
        => /\ vmcb' = vmcb
           /\ guest_cr' = guest_cr
           /\ guest_efer' = guest_efer
           /\ regs' = regs
           /\ debugreg' = debugreg
           /\ "hvm_set_guest_time" \notin call'.ext ]_vars

\* C29 as amended: whenever svm_load_vmcb_ctxt returns an error, the
\* canonical control registers, the general and the debug registers and
\* every field of the control block other than EFER, the shadow GS base
\* and the SYSCALL MSRs have their values of before the call; the
\* canonical EFER, the shadow GS base and the SYSCALL MSRs have the
\* record's values, the control block's EFER is the record's with SVME on
\* and LME as the record's LMA, the guest time was set, and the domain is
\* crashed.
C29_RejectedLoadKeepsControlRegisters ==
    [][ ( call'.op = "svm_load_vmcb_ctxt" /\ call'.rc # 0 )
        => /\ guest_cr' = guest_cr
           /\ regs' = regs
           /\ debugreg' = debugreg
           /\ [ vmcb' EXCEPT !.efer = vmcb.efer,
                             !.kerngsbase = vmcb.kerngsbase,
                             !.lstar = vmcb.lstar, !.star = vmcb.star,
                             !.cstar = vmcb.cstar, !.sfmask = vmcb.sfmask ]
              = vmcb
           /\ guest_efer' = ctxt.msr_efer
           /\ SyscallOf(vmcb')
              = << ctxt.shadow_gs, ctxt.msr_lstar, ctxt.msr_star,
                   ctxt.msr_cstar, ctxt.msr_syscall_mask >>
           /\ "SVME" \in vmcb'.efer
           /\ "LME" \in vmcb'.efer <=> "LMA" \in ctxt.msr_efer
           /\ vmcb'.efer \ { "SVME", "LME" }
              = ctxt.msr_efer \ { "SVME", "LME" }
           /\ "hvm_set_guest_time" \in call'.ext
           /\ crashed' ]_vars

\* C29 witness: a record with an invalid pending event, whose SYSCALL
\* MSRs, EFER and control registers differ from the vcpu's, was refused;
\* the vcpu has the record's SYSCALL MSRs and EFER, not its control
\* registers, and the domain is crashed.
C29_Witness ==
    /\ call.op = "svm_load_vmcb_ctxt"
    /\ call.rc = -EINVAL
    /\ InvalidPending(ctxt)
    /\ ctxt.msr_lstar = 5 /\ vmcb.lstar = 5
    /\ "LMA" \in ctxt.msr_efer /\ "LMA" \in guest_efer
    /\ ctxt.cr2 # guest_cr.cr2
    /\ ctxt.sysenter_eip # vmcb.sysenter_eip
    /\ crashed

\* C30: svm_load_vmcb_ctxt of the record that svm_save_vmcb_ctxt wrote for
\* the same vcpu, with a page-table root that is valid, succeeds and leaves
\* the canonical CR2, CR3 and CR4, the SYSENTER MSRs, the shadow GS base
\* and the SYSCALL MSRs and the canonical EFER with the values they had at
\* the save, and the canonical CR0 with its value at the save and ET set.
C30_SaveLoadReproducesRegisters ==
    ( call.op = "svm_load_vmcb_ctxt" /\ ctxt.origin = "saved" /\ call.in.ok )
    => /\ call.rc = 0
       /\ guest_cr.cr2 = h_save.guest_cr.cr2
       /\ guest_cr.cr3 = h_save.guest_cr.cr3
       /\ guest_cr.cr4 = h_save.guest_cr.cr4
       /\ SysenterOf(vmcb) = h_save.sysenter
       /\ SyscallOf(vmcb) = h_save.syscall
       /\ guest_efer = h_save.guest_efer
       /\ guest_cr.cr0 = h_save.guest_cr.cr0 \cup { "ET" }

\* C30 witness: the record was saved from a vcpu in long mode with paging
\* on, whose guest had written its SYSENTER and SYSCALL MSRs, and the load
\* of that record left these values.
C30_Witness ==
    /\ call.op = "svm_load_vmcb_ctxt"
    /\ ctxt.origin = "saved"
    /\ call.in.ok
    /\ call.rc = 0
    /\ h_save.sysenter = GuestMsrs.sysenter
    /\ h_save.syscall = GuestMsrs.syscall
    /\ "LMA" \in h_save.guest_efer
    /\ "PG" \in h_save.guest_cr.cr0
    /\ h_save.guest_cr.cr3 # 0
    /\ SysenterOf(vmcb) = GuestMsrs.sysenter
    /\ SyscallOf(vmcb) = GuestMsrs.syscall
    /\ guest_efer = h_save.guest_efer
    /\ guest_cr = h_save.guest_cr

(***************************************************************************)
(* SpecAdvance: the exits whose handlers step over the intercepted         *)
(* instruction: CPUID, HLT, INT3 under a debugger, INVD and WBINVD,        *)
(* VMMCALL, RDMSR and WRMSR, each with every decoded length, from guests   *)
(* that single-step, have the resume flag set or are in an interrupt       *)
(* shadow.                                                                 *)
(***************************************************************************)
NextAdvance ==
    \/ CtxtSwitchTo
    \/ CtxtSwitchFrom
    \/ \E g \in ExitGuests, s \in { 0, 1 } :
            VmEntry([ g EXCEPT !.shadow = s ])
    \/ \E b \in BOOLEAN : SetDebugger(b)
    \/ \E in \in HltExits \cup HcallExits
                  \cup { m \in MsrExits : m.msr = "MSR_OTHER" /\ m.val = 0 }
                  \cup { [ Exit(r) EXCEPT !.inst_len = n, !.ok = k ] :
                           r \in { "VMEXIT_CPUID", "VMEXIT_EXCEPTION_BP",
                                   "VMEXIT_INVD", "VMEXIT_WBINVD" },
                           n \in InstLens, k \in BOOLEAN } : VmExit(in)

SpecAdvance == InitFor({ FALSE }) /\ [][NextAdvance]_vars

\* C31: the handler of a CPUID, HLT, INT3, INVD, WBINVD, VMMCALL or MSR exit
\* changes the instruction pointer only by adding a decoded length between
\* 1 and 15.  When a length of 0 or above 15 reaches __update_guest_eip
\* (INT3 under a debugger, INVD, WBINVD and an MSR access that succeeded
\* with any such length; CPUID, HLT and a hypercall that was not preempted
\* with a length above 15), the domain is crashed, the instruction
\* pointer, the flags and the interrupt shadow are as the guest left them,
\* and the injection slot is as it was when the exit was dispatched.
C31_AdvanceByDecodedLength ==
    [][ call'.op = "svm_vmexit_handler"
        => LET in == call'.in
               r == in.exit_reason
               n == in.inst_len
               reached ==
                   \/ r = "VMEXIT_EXCEPTION_BP" /\ debugger_attached
                   \/ r \in { "VMEXIT_INVD", "VMEXIT_WBINVD" }
                   \/ r = "VMEXIT_MSR" /\ call'.rc = X86EMUL_OKAY
                   \/ r \in { "VMEXIT_CPUID", "VMEXIT_HLT" } /\ n # 0
                   \/ r = "VMEXIT_VMMCALL" /\ n # 0 /\ in.hcall # "preempted"
           IN  /\ regs'.eip # regs.eip
                  => /\ n \in 1 .. MAX_INST_LEN
                     /\ regs'.eip = (regs.eip + n) % RipMod
               /\ ( reached /\ n \notin 1 .. MAX_INST_LEN )
                  => /\ crashed'
                     /\ regs'.eip = regs.eip
                     /\ regs'.eflags = regs.eflags
                     /\ vmcb'.interrupt_shadow = vmcb.interrupt_shadow
                     /\ vmcb'.eventinj = call'.disp ]_vars

\* C31 witness: a cache-invalidation exit with a decoded length of 0, from
\* a single-stepping guest in an interrupt shadow, crashed the domain and
\* left the instruction pointer, the trap flag and the shadow alone and the
\* injection slot empty.
C31_Witness ==
    /\ call.op = "svm_vmexit_handler"
    /\ call.in.exit_reason = "VMEXIT_WBINVD"
    /\ call.in.inst_len = 0
    /\ crashed
    /\ regs.eip = call.eip0
    /\ "TF" \in regs.eflags
    /\ vmcb.interrupt_shadow = 1
    /\ vmcb.eventinj.v = 0

====
